---- MODULE Spec2Model ----
(***************************************************************************)
(* A model of the component installer of copilot-learning-templates        *)
(* (cli-tool/src/index.js): the batch orchestrator                          *)
(* installMultipleComponents and the per-kind install routines it calls,    *)
(* acting on the file system of the target project.                         *)
(*                                                                          *)
(* Strings are sequences of tokens.  The separators "/", "," and " " are    *)
(* tokens of their own; a name atom ("n", "c") and a literal piece of a     *)
(* template (".agent.md", ".github") is one token.  A JSON object is a      *)
(* function from its keys to its values.                                    *)
(***************************************************************************)
EXTENDS Integers, Sequences, FiniteSets, TLC

VARIABLES
    options,                \* the CLI option object given to the batch
    pc,                     \* where the batch is
    components,             \* the parsed request lists, per kind
    totalComponents,        \* number of requests of the batch
    successfullyInstalled,  \* counter of installs that returned a truthy value
    queue,                  \* the requests not yet started, in loop order
    cur,                    \* the install in progress, with the answer of its fetch
    inflight,               \* the installs called and not yet returned
    files,                  \* path -> content of the text files of the project
    dirs,                   \* the directories of the project
    execs,                  \* the files with mode 755
    mcpJson,                \* the document in .vscode/mcp.json
    files0,                 \* files as the batch found them
    dirs0,                  \* dirs as the batch found them
    mcpJson0,               \* the MCP file as the batch found it
    stack,                  \* downloadDirectory's pending frames
    downloadedFiles,        \* the skill files downloaded so far
    prompts,                \* number of overwrite prompts issued
    started,                \* the requests whose install was called, in order
    log,                    \* one record per install that returned
    report,                 \* the final message of the batch
    exitCode,               \* -1 while running, then the process exit code
    invocations,            \* the MCP installs of invocations of the tool that run
                            \* at the same time on this project
    fetched,                \* history: the requests sent to the remote, per install
    handlers                \* the handlers createCopilotConfig has called

vars == <<options, pc, components, totalComponents, successfullyInstalled, queue,
          cur, inflight, files, dirs, execs, mcpJson, files0, dirs0, mcpJson0,
          stack, downloadedFiles, prompts, started, log, report, exitCode,
          invocations, fetched, handlers>>

(***************************************************************************)
(* Bounds                                                                   *)
(***************************************************************************)
\* the largest number of requests in one batch
MaxItems == 3

(***************************************************************************)
(* Strings                                                                  *)
(***************************************************************************)
\* String.prototype.includes for a one-token needle
Includes(s, ch) == \E i \in DOMAIN s : s[i] = ch

\* index of the first occurrence of ch in s, 0 when there is none
RECURSIVE IndexOf(_, _, _)
IndexOf(s, ch, from) ==
    IF from > Len(s) THEN 0
    ELSE IF s[from] = ch THEN from
    ELSE IndexOf(s, ch, from + 1)

\* String.prototype.split: "a,,b" gives <<a, "", b>> and "" gives <<"">>
RECURSIVE Split(_, _)
Split(s, sep) ==
    LET i == IndexOf(s, sep, 1) IN
    IF i = 0 THEN <<s>>
    ELSE <<SubSeq(s, 1, i - 1)>> \o Split(SubSeq(s, i + 1, Len(s)), sep)

\* Array.prototype.join
RECURSIVE Join(_, _)
Join(list, sep) ==
    IF Len(list) = 0 THEN <<>>
    ELSE IF Len(list) = 1 THEN list[1]
    ELSE list[1] \o <<sep>> \o Join(Tail(list), sep)

RECURSIVE TrimStart(_)
TrimStart(s) ==
    IF Len(s) > 0 /\ s[1] = " " THEN TrimStart(Tail(s)) ELSE s

RECURSIVE TrimEnd(_)
TrimEnd(s) ==
    IF Len(s) > 0 /\ s[Len(s)] = " " THEN TrimEnd(SubSeq(s, 1, Len(s) - 1)) ELSE s

\* String.prototype.trim
Trim(s) == TrimEnd(TrimStart(s))

\* list.map(x => x.trim())
MapTrim(list) == [i \in DOMAIN list |-> Trim(list[i])]

\* list.filter(x => x): the empty string is falsy
KeepAll(list) == list
RECURSIVE FilterNonEmpty(_)
FilterNonEmpty(list) ==
    IF Len(list) = 0 THEN <<>>
    ELSE IF Len(list[1]) = 0 THEN FilterNonEmpty(Tail(list))
    ELSE <<list[1]>> \o FilterNonEmpty(Tail(list))

\* String.prototype.endsWith for a one-token suffix
EndsWith(s, suffix) == Len(s) > 0 /\ s[Len(s)] = suffix

\* a JavaScript string or undefined as a condition
Truthy(s) == Len(s) > 0

(***************************************************************************)
(* Paths, relative to the target directory                                  *)
(***************************************************************************)
\* path.join of two relative paths without empty or dot segments
PathJoin(a, b) == a \o <<"/">> \o b

\* path.dirname
Dirname(p) ==
    LET cut == {i \in DOMAIN p : p[i] = "/"} IN
    IF cut = {} THEN <<>>
    ELSE SubSeq(p, 1, (CHOOSE i \in cut : \A j \in cut : j <= i) - 1)

\* the directory d and the directories above it, the target directory excluded
Ancestors(d) ==
    IF Len(d) = 0 THEN {}
    ELSE {SubSeq(d, 1, i - 1) : i \in {j \in DOMAIN d : d[j] = "/"}} \cup {d}

\* fs.ensureDir
EnsureDir(ds, d) == ds \cup Ancestors(d)

\* fs.writeFile on the path -> content map
WriteFile(fs, p, content) ==
    [x \in DOMAIN fs \cup {p} |-> IF x = p THEN content ELSE fs[x]]

(***************************************************************************)
(* JSON objects                                                             *)
(***************************************************************************)
EmptyObject == [k \in {} |-> <<>>]

\* { ...a, ...b }
Spread(a, b) ==
    [k \in DOMAIN a \cup DOMAIN b |-> IF k \in DOMAIN b THEN b[k] ELSE a[k]]

\* delete o[key]
DeleteKey(o, key) == [k \in DOMAIN o \ {key} |-> o[k]]

\* { ...o, [key]: value }
SetKey(o, key, value) ==
    [k \in DOMAIN o \cup {key} |-> IF k = key THEN value ELSE o[k]]

(***************************************************************************)
(* The component resolver: remote URL and local destination per kind        *)
(***************************************************************************)
githubDir == <<".github">>
agentsDir == PathJoin(githubDir, <<"agents">>)
promptsDir == PathJoin(githubDir, <<"prompts">>)
instructionsDir == PathJoin(githubDir, <<"instructions">>)
skillsDir == PathJoin(githubDir, <<"skills">>)
vscodeDir == <<".vscode">>
targetMcpFile == PathJoin(vscodeDir, <<"mcp.json">>)
copilotInstructionsFile == PathJoin(githubDir, <<"copilot-instructions.md">>)
workspaceAgentsFile == <<"AGENTS.md">>

\* the URL fetched for a request; the same template with and without a category
GithubUrl(kind, name) ==
    CASE kind = "agent" -> <<"raw/components/agents/">> \o name \o <<".agent.md">>
      [] kind = "prompt" -> <<"raw/components/prompts/">> \o name \o <<".prompt.md">>
      [] kind = "mcp" -> <<"raw/components/mcps/">> \o name \o <<".json">>
      [] kind = "instruction" ->
            <<"raw/components/instructions/">> \o name \o <<".instructions.md">>
      [] kind = "copilot-instructions" ->
            <<"raw/components/instructions/copilot-instructions/">> \o name
                \o <<"/copilot-instructions.md">>
      [] kind = "workspace-agents" ->
            <<"raw/components/workspace/">> \o name \o <<"/AGENTS.md">>
      [] kind = "skill" -> <<"api/contents/components/skills/">> \o name

\* the body the remote serves at a URL
Body(url) == <<"body of">> \o url

\* const [category, filename] = agentName.split('/')
AgentFileNameFlat(agentName) == agentName
AgentFileName(agentName) ==
    IF Includes(agentName, "/") THEN Split(agentName, "/")[2] ELSE agentName

AgentTargetFile(agentName) ==
    PathJoin(agentsDir, AgentFileName(agentName) \o <<".agent.md">>)

\* const [category, filename] = promptName.split('/')
PromptFileName(promptName) ==
    IF Includes(promptName, "/") THEN Split(promptName, "/")[2] ELSE promptName

PromptTargetFile(promptName) ==
    PathJoin(promptsDir, PromptFileName(promptName) \o <<".prompt.md">>)

\* parts[parts.length - 1]
InstructionFileName(instructionName) ==
    IF Includes(instructionName, "/")
    THEN LET parts == Split(instructionName, "/") IN parts[Len(parts)]
    ELSE instructionName

InstructionTargetFile(instructionName) ==
    PathJoin(instructionsDir, InstructionFileName(instructionName) \o <<".instructions.md">>)

\* skillName.split('/').pop()
SkillBaseName(skillName) ==
    IF Includes(skillName, "/")
    THEN LET parts == Split(skillName, "/") IN parts[Len(parts)]
    ELSE skillName

\* `.github/skills/${skillBaseName}/${itemPath}`
SkillTargetPath(skillName, itemPath) ==
    PathJoin(PathJoin(skillsDir, SkillBaseName(skillName)), itemPath)

(***************************************************************************)
(* Inputs: option values, the project as found, the remote's answers        *)
(***************************************************************************)
\* an option not given (undefined)
Absent == [isArray |-> FALSE, val |-> <<>>]
StringValue(s) == [isArray |-> FALSE, val |-> s]
ArrayValue(list) == [isArray |-> TRUE, val |-> list]

IdPlain == <<"n">>
IdCategory == <<"c", "/", "n">>

\* "c/n"
RawOne == StringValue(IdCategory)
\* " n ,,c/n"
RawTwo == StringValue(<<" ", "n", " ", ",", ",", "c", "/", "n">>)
\* ","
RawNone == StringValue(<<",">>)
\* ["n ", "c/n"]
RawArray == ArrayValue(<<<<"n", " ">>, IdCategory>>)

\* if (options.agent): an array is truthy, a string when not empty
OptionSet(v) == v.isArray \/ Truthy(v.val)

\* Array.isArray(v) ? v.join(',') : v, then split, trim, filter
ParseList(v) ==
    LET input == IF v.isArray THEN Join(v.val, ",") ELSE v.val
    IN  FilterNonEmpty(MapTrim(Split(input, ",")))

\* the request list of a multi-value option
ComponentListDistinct(v) ==
    LET l == IF OptionSet(v) THEN ParseList(v) ELSE <<>>
        RECURSIVE Keep(_)
        Keep(i) == IF i > Len(l) THEN <<>>
                   ELSE IF \E j \in 1..(i - 1) : l[j] = l[i] THEN Keep(i + 1)
                   ELSE <<l[i]>> \o Keep(i + 1)
    IN  Keep(1)
ComponentList(v) == IF OptionSet(v) THEN ParseList(v) ELSE <<>>

\* the singleton options: the template name, or null
SingletonOf(v) == IF OptionSet(v) THEN v.val ELSE <<>>

ParseComponents(o) ==
    [agents |-> ComponentList(o.agent),
     mcps |-> ComponentList(o.mcp),
     skills |-> ComponentList(o.skill),
     instructions |-> ComponentList(o.instruction),
     prompts |-> ComponentList(o.prompt),
     copilotInstructions |-> SingletonOf(o.copilotInstructions),
     workspaceAgents |-> SingletonOf(o.workspaceAgents)]

TotalOf(c) ==
    Len(c.agents) + Len(c.mcps) + Len(c.skills) + Len(c.instructions)
        + Len(c.prompts) + (IF Truthy(c.copilotInstructions) THEN 1 ELSE 0)
        + (IF Truthy(c.workspaceAgents) THEN 1 ELSE 0)

Tag(kind, list) == [i \in DOMAIN list |-> [kind |-> kind, name |-> list[i]]]

\* the order of the install loops of the batch
RequestsInOrderSplitting(c) ==
    Tag("agent", c.agents) \o Tag("mcp", c.mcps) \o Tag("skill", c.skills)
        \o Tag("instruction", c.instructions) \o Tag("prompt", c.prompts)
        \o Tag("copilot-instructions",
               FilterNonEmpty(MapTrim(Split(c.copilotInstructions, ","))))
        \o Tag("workspace-agents",
               FilterNonEmpty(MapTrim(Split(c.workspaceAgents, ","))))
RequestsInOrder(c) ==
    Tag("agent", c.agents) \o Tag("mcp", c.mcps) \o Tag("skill", c.skills)
        \o Tag("instruction", c.instructions) \o Tag("prompt", c.prompts)
        \o (IF Truthy(c.copilotInstructions)
            THEN <<[kind |-> "copilot-instructions", name |-> c.copilotInstructions]>>
            ELSE <<>>)
        \o (IF Truthy(c.workspaceAgents)
            THEN <<[kind |-> "workspace-agents", name |-> c.workspaceAgents]>>
            ELSE <<>>)

\* createCopilotConfig hands the options to the batch when one of these is set
BatchRequested(o) ==
    \/ OptionSet(o.agent) \/ OptionSet(o.skill) \/ OptionSet(o.mcp)
    \/ OptionSet(o.instruction) \/ OptionSet(o.prompt)
    \/ OptionSet(o.copilotInstructions) \/ OptionSet(o.workspaceAgents)

OptionRecords ==
    [agent : {Absent, RawNone, RawArray},
     mcp : {Absent, RawTwo},
     skill : {Absent, RawOne, RawTwo},
     instruction : {Absent, RawTwo},
     prompt : {Absent, RawTwo},
     copilotInstructions : {Absent, StringValue(<<"beginner-friendly">>)},
     workspaceAgents : {Absent, StringValue(<<"python-tutors">>)},
     yes : BOOLEAN]

BatchOptions ==
    {o \in OptionRecords : BatchRequested(o) /\ TotalOf(ParseComponents(o)) <= MaxItems}

\* server entries
EntryNew == [command |-> "npx", description |-> "a server"]
EntryOther == [command |-> "uvx", description |-> "another server"]
EntryReplacement == [command |-> "node"]
EntryStored == [command |-> "old", env |-> "HOME", description |-> "kept by hand"]

\* the documents the remote may serve for an MCP
PayloadServers == [servers |-> [s1 |-> EntryNew]]
PayloadLegacy == [mcpServers |-> [s2 |-> EntryOther]]
PayloadCollide == [servers |-> [s1 |-> EntryReplacement]]
PayloadBare == [name |-> "no servers"]
Payloads == {PayloadServers, PayloadLegacy, PayloadCollide, PayloadBare}

NoMcpFile == [exists |-> FALSE, doc |-> EmptyObject]
McpFile(doc) == [exists |-> TRUE, doc |-> doc]

OldContent == <<"old content">>

\* a project without any of the files
ProjectEmpty ==
    [files |-> EmptyObject, dirs |-> {}, mcpJson |-> NoMcpFile]

\* a project that was set up before
ProjectConfigured ==
    [files |-> (copilotInstructionsFile :> OldContent) @@ (workspaceAgentsFile :> OldContent)
                  @@ (AgentTargetFile(IdPlain) :> OldContent),
     dirs |-> {githubDir, agentsDir, vscodeDir},
     mcpJson |-> McpFile([servers |-> [s0 |-> EntryStored, s1 |-> EntryStored],
                          inputs |-> "none"])]

\* a project whose MCP file uses the legacy key
ProjectLegacy ==
    [files |-> EmptyObject, dirs |-> {vscodeDir},
     mcpJson |-> McpFile([mcpServers |-> [s0 |-> EntryStored], inputs |-> "none"])]

Projects == {ProjectEmpty, ProjectConfigured, ProjectLegacy}

NoCur == [kind |-> "none"]
\* no other invocation of the tool is running
NoInvocations == <<>>
NoReport == [msg |-> "none", installed |-> 0, total |-> 0, failed |-> 0]

Init ==
    /\ options \in BatchOptions
    /\ \E p \in Projects :
          /\ files = p.files /\ files0 = p.files
          /\ dirs = p.dirs /\ dirs0 = p.dirs
          /\ mcpJson = p.mcpJson /\ mcpJson0 = p.mcpJson
    /\ execs = {}
    /\ pc = "batch"
    /\ components = ParseComponents([agent |-> Absent, mcp |-> Absent, skill |-> Absent,
                                     instruction |-> Absent, prompt |-> Absent,
                                     copilotInstructions |-> Absent,
                                     workspaceAgents |-> Absent])
    /\ totalComponents = 0
    /\ successfullyInstalled = 0
    /\ queue = <<>>
    /\ cur = NoCur
    /\ inflight = {}
    /\ stack = <<>>
    /\ downloadedFiles = EmptyObject
    /\ prompts = 0
    /\ started = <<>>
    /\ log = <<>>
    /\ report = NoReport
    /\ exitCode = -1
    /\ invocations = NoInvocations
    /\ fetched = <<>>
    /\ handlers = <<>>

(***************************************************************************)
(* installMultipleComponents: parsing the options                           *)
(***************************************************************************)
\* the action of the program exits with 1 when createCopilotConfig throws
ExitCodeAlwaysZero(thrown) == 0
ExitCode(thrown) == IF thrown THEN 1 ELSE 0

ParseOptions ==
    /\ pc = "batch"
    /\ components' = ParseComponents(options)
    /\ totalComponents' = TotalOf(ParseComponents(options))
    /\ IF TotalOf(ParseComponents(options)) = 0
       THEN /\ report' = [msg |-> "no components specified", installed |-> 0,
                          total |-> 0, failed |-> 0]
            /\ pc' = "done"
            /\ exitCode' = ExitCode(FALSE)
            /\ queue' = <<>>
       ELSE /\ report' = report
            /\ pc' = "loop"
            /\ exitCode' = exitCode
            /\ queue' = RequestsInOrder(ParseComponents(options))
    /\ UNCHANGED <<options, successfullyInstalled, cur, inflight, files, dirs, execs,
                   mcpJson, files0, dirs0, mcpJson0, stack, downloadedFiles, prompts,
                   started, log, invocations, fetched, handlers>>

(***************************************************************************)
(* The remote's answers                                                     *)
(***************************************************************************)
FileItem(name, ok) == [name |-> name, type |-> "file", url |-> "download", ok |-> ok]
DirItem(name, url) == [name |-> name, type |-> "dir", url |-> url, ok |-> TRUE]
Listing(status, items) == [status |-> status, items |-> items]

SkillMd == <<"SKILL.md">>

\* a complete skill: the sentinel, a script and a subdirectory
RemoteComplete ==
    [root |-> Listing(200, <<FileItem(SkillMd, TRUE), FileItem(<<"run", ".py">>, TRUE),
                             DirItem(<<"docs">>, "d1")>>),
     d1 |-> Listing(200, <<FileItem(<<"guide.md">>, TRUE)>>)]

\* a skill whose only SKILL.md lies in a subdirectory
RemoteNoSentinel ==
    [root |-> Listing(200, <<FileItem(<<"README.md">>, TRUE), DirItem(<<"docs">>, "d1")>>),
     d1 |-> Listing(200, <<FileItem(SkillMd, TRUE)>>)]

\* a skill whose SKILL.md cannot be downloaded
RemoteSentinelFails ==
    [root |-> Listing(200, <<FileItem(SkillMd, FALSE), FileItem(<<"run", ".py">>, TRUE)>>),
     d1 |-> Listing(404, <<>>)]

\* a skill of which only the sentinel can be downloaded
RemotePartial ==
    [root |-> Listing(200, <<FileItem(SkillMd, TRUE), FileItem(<<"setup", ".sh">>, FALSE),
                             DirItem(<<"docs">>, "d1")>>),
     d1 |-> Listing(404, <<>>)]

RemoteNotFound == [root |-> Listing(404, <<>>), d1 |-> Listing(404, <<>>)]
RemoteError == [root |-> Listing(500, <<>>), d1 |-> Listing(404, <<>>)]

SkillRemotes ==
    {RemoteComplete, RemoteNoSentinel, RemoteSentinelFails, RemotePartial,
     RemoteNotFound, RemoteError}

Answer(status, fsok, payload, remote) ==
    [status |-> status, fsok |-> fsok, payload |-> payload, remote |-> remote]

\* what the remote and the file system may answer to an install of a kind; a
\* file system error is drawn for one successful answer of each kind
Answers(kind) ==
    IF kind = "skill"
    THEN {Answer(r.root.status, TRUE, EmptyObject, r) : r \in SkillRemotes}
            \cup {Answer(200, FALSE, EmptyObject, RemoteComplete)}
    ELSE IF kind = "mcp"
    THEN {Answer(200, TRUE, p, RemoteNotFound) : p \in Payloads}
            \cup {Answer(200, FALSE, PayloadServers, RemoteNotFound)}
            \cup {Answer(st, TRUE, EmptyObject, RemoteNotFound) : st \in {404, 500}}
    ELSE {Answer(200, ok, EmptyObject, RemoteNotFound) : ok \in BOOLEAN}
            \cup {Answer(st, TRUE, EmptyObject, RemoteNotFound) : st \in {404, 500}}

(***************************************************************************)
(* The install loops: calling an installer, which issues its fetch          *)
(***************************************************************************)
\* await fetch(url): one request is sent to the remote, whatever it answers
FetchWithRetry(install, url) ==
    <<[install |-> install, url |-> url], [install |-> install, url |-> url]>>
Fetch(install, url) == <<[install |-> install, url |-> url]>>

\* the URL of the listing of a directory of a skill (item.url) and of one of
\* its files (item.download_url)
ListingUrl(skillName, dir) ==
    IF dir = "root" THEN GithubUrl("skill", skillName)
    ELSE GithubUrl("skill", skillName) \o <<"/", dir>>
DownloadUrl(skillName, itemPath) == GithubUrl("skill", skillName) \o <<"/">> \o itemPath

\* each loop awaits the install it called before it goes on
LoopMayStartNoAwait == pc \in {"loop", "fetching", "mcp_write", "skill_walk"}
LoopMayStart == pc = "loop"

\* if (agentSuccess) successfullyInstalled++
CountedUnlessFalse(result) == result # "false"
Counted(result) == result = "true"

\* a loop calls the installer of its next request, which issues its fetch;
\* the answer is one of `answers`
StartInstallAnswered(answers) ==
    /\ LoopMayStart
    /\ queue # <<>>
    /\ \E a \in answers :
          cur' = [kind |-> Head(queue).kind, name |-> Head(queue).name,
                  index |-> Len(started) + 1,
                  status |-> a.status, fsok |-> a.fsok, payload |-> a.payload,
                  remote |-> a.remote, merged |-> EmptyObject]
    /\ queue' = Tail(queue)
    /\ started' = Append(started, Head(queue))
    /\ inflight' = inflight \cup {Len(started) + 1}
    /\ fetched' = fetched \o Fetch(Len(started) + 1,
                                    GithubUrl(Head(queue).kind, Head(queue).name))
    /\ pc' = "fetching"
    /\ UNCHANGED <<options, components, totalComponents, successfullyInstalled, files,
                   dirs, execs, mcpJson, files0, dirs0, mcpJson0, stack,
                   downloadedFiles, prompts, log, report, exitCode, invocations, handlers>>

StartInstall == StartInstallAnswered(Answers(Head(queue).kind))

\* response.statusText
StatusText(status) ==
    CASE status = 200 -> "OK"
      [] status = 404 -> "Not Found"
      [] status = 500 -> "Internal Server Error"

\* new Error(`HTTP ${response.status}: ${response.statusText}`), thrown when
\* the answer is neither ok nor 404 and printed by the installer's catch block
NoError == <<>>
FetchError(c) ==
    IF c.status \notin {200, 404}
    THEN <<"HTTP ", c.status, ": ", StatusText(c.status)>>
    ELSE NoError

\* the install in progress returns `result` to the loop that called it
Return(result, wrote, prompted, after) ==
    /\ log' = Append(log, [kind |-> cur.kind, name |-> cur.name, status |-> cur.status,
                           fsok |-> cur.fsok, payload |-> cur.payload,
                           remote |-> cur.remote, result |-> result, wrote |-> wrote,
                           fetchError |-> FetchError(cur),
                           prompted |-> prompted, yes |-> options.yes,
                           filesBefore |-> files, dirsBefore |-> dirs,
                           before |-> mcpJson, after |-> after])
    /\ successfullyInstalled' =
          IF Counted(result) THEN successfullyInstalled + 1 ELSE successfullyInstalled
    /\ inflight' = inflight \ {cur.index}
    /\ cur' = NoCur
    /\ pc' = "loop"
    /\ UNCHANGED <<options, components, totalComponents, queue, files0, dirs0, mcpJson0,
                   started, report, exitCode, invocations, fetched, handlers>>

Outcome(result, fs, ds, wrote) ==
    [result |-> result, files |-> fs, dirs |-> ds, wrote |-> wrote]

\* an install that changes nothing in the project
Untouched(result) == Outcome(result, files, dirs, {})

(***************************************************************************)
(* installIndividualAgent                                                   *)
(***************************************************************************)
AgentOutcomeNo404Check(c) ==
    IF ~c.fsok THEN Untouched("false")
    ELSE Outcome("true",
                 WriteFile(files, AgentTargetFile(c.name), Body(GithubUrl("agent", c.name))),
                 EnsureDir(dirs, agentsDir),
                 {AgentTargetFile(c.name)})
AgentOutcome(c) ==
    IF c.status = 404 THEN Untouched("undefined")
    ELSE IF c.status # 200 THEN Untouched("false")
    ELSE IF ~c.fsok THEN Untouched("false")
    ELSE Outcome("true",
                 WriteFile(files, AgentTargetFile(c.name), Body(GithubUrl("agent", c.name))),
                 EnsureDir(dirs, agentsDir),
                 {AgentTargetFile(c.name)})

FinishAgent ==
    /\ pc = "fetching" /\ cur.kind = "agent"
    /\ LET o == AgentOutcome(cur) IN
          /\ files' = o.files
          /\ dirs' = o.dirs
          /\ Return(o.result, o.wrote, FALSE, mcpJson)
    /\ UNCHANGED <<execs, mcpJson, stack, downloadedFiles, prompts>>

(***************************************************************************)
(* installIndividualPrompt                                                  *)
(***************************************************************************)
PromptOutcomeIgnoresStatus(c) ==
    IF c.status = 404 THEN Untouched("undefined")
    ELSE IF ~c.fsok THEN Untouched("false")
    ELSE Outcome("true",
                 WriteFile(files, PromptTargetFile(c.name), Body(GithubUrl("prompt", c.name))),
                 EnsureDir(dirs, promptsDir),
                 {PromptTargetFile(c.name)})
PromptOutcome(c) ==
    IF c.status = 404 THEN Untouched("undefined")
    ELSE IF c.status # 200 THEN Untouched("false")
    ELSE IF ~c.fsok THEN Untouched("false")
    ELSE Outcome("true",
                 WriteFile(files, PromptTargetFile(c.name), Body(GithubUrl("prompt", c.name))),
                 EnsureDir(dirs, promptsDir),
                 {PromptTargetFile(c.name)})

FinishPrompt ==
    /\ pc = "fetching" /\ cur.kind = "prompt"
    /\ LET o == PromptOutcome(cur) IN
          /\ files' = o.files
          /\ dirs' = o.dirs
          /\ Return(o.result, o.wrote, FALSE, mcpJson)
    /\ UNCHANGED <<execs, mcpJson, stack, downloadedFiles, prompts>>

(***************************************************************************)
(* installInstruction                                                       *)
(***************************************************************************)
InstructionOutcome(c) ==
    IF c.status = 404 THEN Untouched("false")
    ELSE IF c.status # 200 THEN Untouched("false")
    ELSE IF ~c.fsok THEN Untouched("false")
    ELSE Outcome("true",
                 WriteFile(files, InstructionTargetFile(c.name),
                           Body(GithubUrl("instruction", c.name))),
                 EnsureDir(dirs, instructionsDir),
                 {InstructionTargetFile(c.name)})

FinishInstruction ==
    /\ pc = "fetching" /\ cur.kind = "instruction"
    /\ LET o == InstructionOutcome(cur) IN
          /\ files' = o.files
          /\ dirs' = o.dirs
          /\ Return(o.result, o.wrote, FALSE, mcpJson)
    /\ UNCHANGED <<execs, mcpJson, stack, downloadedFiles, prompts>>

(***************************************************************************)
(* installCopilotInstructions and installWorkspaceAgents: the singletons    *)
(***************************************************************************)
\* the overwrite prompt is issued when the file exists and --yes is not given
PromptsAlways(target) == target \in DOMAIN files
NeedsPrompt(target) == target \in DOMAIN files /\ ~options.yes

\* the file is written unless the operator declined the prompt
MayWrite(target, overwrite) == ~NeedsPrompt(target) \/ overwrite

CopilotInstructionsOutcome(c, overwrite) ==
    IF c.status = 404 THEN Untouched("false")
    ELSE IF c.status # 200 THEN Untouched("false")
    ELSE IF ~c.fsok THEN Untouched("false")
    ELSE IF ~MayWrite(copilotInstructionsFile, overwrite)
    THEN Outcome("false", files, EnsureDir(dirs, githubDir), {})
    ELSE Outcome("true",
                 WriteFile(files, copilotInstructionsFile,
                           Body(GithubUrl("copilot-instructions", c.name))),
                 EnsureDir(dirs, githubDir),
                 {copilotInstructionsFile})

\* the answers the operator may give: none when no prompt is issued
OverwriteAnswers(c, target) ==
    IF c.status = 200 /\ c.fsok /\ NeedsPrompt(target) THEN BOOLEAN ELSE {FALSE}

\* whether this install issues the prompt
Prompted(c, target) == c.status = 200 /\ c.fsok /\ NeedsPrompt(target)

FinishCopilotInstructions ==
    /\ pc = "fetching" /\ cur.kind = "copilot-instructions"
    /\ \E overwrite \in OverwriteAnswers(cur, copilotInstructionsFile) :
          LET o == CopilotInstructionsOutcome(cur, overwrite) IN
             /\ files' = o.files
             /\ dirs' = o.dirs
             /\ prompts' = IF Prompted(cur, copilotInstructionsFile)
                           THEN prompts + 1 ELSE prompts
             /\ Return(o.result, o.wrote, Prompted(cur, copilotInstructionsFile), mcpJson)
    /\ UNCHANGED <<execs, mcpJson, stack, downloadedFiles>>

WorkspaceAgentsOutcome(c, overwrite) ==
    IF c.status = 404 THEN Untouched("false")
    ELSE IF c.status # 200 THEN Untouched("false")
    ELSE IF ~c.fsok THEN Untouched("false")
    ELSE IF ~MayWrite(workspaceAgentsFile, overwrite) THEN Untouched("false")
    ELSE Outcome("true",
                 WriteFile(files, workspaceAgentsFile,
                           Body(GithubUrl("workspace-agents", c.name))),
                 dirs,
                 {workspaceAgentsFile})

FinishWorkspaceAgents ==
    /\ pc = "fetching" /\ cur.kind = "workspace-agents"
    /\ \E overwrite \in OverwriteAnswers(cur, workspaceAgentsFile) :
          LET o == WorkspaceAgentsOutcome(cur, overwrite) IN
             /\ files' = o.files
             /\ dirs' = o.dirs
             /\ prompts' = IF Prompted(cur, workspaceAgentsFile)
                           THEN prompts + 1 ELSE prompts
             /\ Return(o.result, o.wrote, Prompted(cur, workspaceAgentsFile), mcpJson)
    /\ UNCHANGED <<execs, mcpJson, stack, downloadedFiles>>

(***************************************************************************)
(* installIndividualMCP                                                     *)
(***************************************************************************)
\* mcpConfig.servers || mcpConfig.mcpServers || {}
ExtractServers(mcpConfig) ==
    IF "servers" \in DOMAIN mcpConfig THEN mcpConfig.servers
    ELSE IF "mcpServers" \in DOMAIN mcpConfig THEN mcpConfig.mcpServers
    ELSE EmptyObject

\* delete newServers[serverName].description, for each server
KeepDescription(servers) == servers
StripDescription(servers) ==
    [name \in DOMAIN servers |-> DeleteKey(servers[name], "description")]

NewServers(mcpConfig) == StripDescription(ExtractServers(mcpConfig))

\* existingConfig.servers || {}
ExistingServers(existingConfig) ==
    IF "servers" \in DOMAIN existingConfig THEN existingConfig.servers ELSE EmptyObject

\* { ...(existingConfig.servers || {}), ...newServers }
MergedServersExistingWins(existingConfig, newServers) ==
    Spread(newServers, ExistingServers(existingConfig))
MergedServersOnlyNew(existingConfig, newServers) == newServers
MergedServersDeep(existingConfig, newServers) ==
    LET old == ExistingServers(existingConfig)
    IN  [name \in DOMAIN old \cup DOMAIN newServers |->
            IF name \in DOMAIN old /\ name \in DOMAIN newServers
            THEN Spread(old[name], newServers[name])
            ELSE IF name \in DOMAIN newServers THEN newServers[name] ELSE old[name]]
MergedServers(existingConfig, newServers) ==
    Spread(ExistingServers(existingConfig), newServers)

\* { ...existingConfig, servers: mergedServers } without the key mcpServers
MergedConfigKeepsLegacyKey(existingConfig, newServers) ==
    SetKey(existingConfig, "servers", MergedServers(existingConfig, newServers))
MergedConfig(existingConfig, newServers) ==
    DeleteKey(SetKey(existingConfig, "servers", MergedServers(existingConfig, newServers)),
              "mcpServers")

\* A JSON object is a function from its keys.  A text that is not JSON is
\* written [text |-> t], and a JSON value that is not an object (null, a
\* number) [jsonValue |-> v]: it has none of the keys a document is asked for.
PayloadNotJson == [text |-> "<html>"]
PayloadNull == [jsonValue |-> "null"]
PayloadNumber == [jsonValue |-> "17"]

\* JSON.parse(text), fs.readJson(file): throws on a text that is not JSON
JsonParsesAnything(doc) == TRUE
JsonParses(doc) == "text" \notin DOMAIN doc

\* mcpConfig.servers: reading a property throws on null (and undefined) only
HasProperties(value) == ~("jsonValue" \in DOMAIN value /\ value.jsonValue = "null")

\* fs.pathExists(targetMcpFile) ? fs.readJson(targetMcpFile) : {}
ExistingConfigNeverRead == EmptyObject
ExistingConfig == IF mcpJson.exists THEN mcpJson.doc ELSE EmptyObject

\* the fetch has answered: parse, strip, read the existing file and merge
ReadMergeMCP ==
    /\ pc = "fetching" /\ cur.kind = "mcp"
    /\ IF cur.status = 404
       THEN /\ Return("undefined", {}, FALSE, mcpJson)
            /\ UNCHANGED dirs
       ELSE IF \/ cur.status # 200
               \/ ~JsonParses(cur.payload) \/ ~HasProperties(cur.payload)
               \/ ~cur.fsok
       THEN /\ Return("false", {}, FALSE, mcpJson)
            /\ UNCHANGED dirs
       ELSE IF mcpJson.exists /\ ~JsonParses(mcpJson.doc)
       THEN /\ dirs' = EnsureDir(dirs, vscodeDir)
            /\ Return("false", {}, FALSE, mcpJson)
       ELSE /\ dirs' = EnsureDir(dirs, vscodeDir)
            /\ cur' = [cur EXCEPT !.merged = MergedConfig(ExistingConfig,
                                                          NewServers(cur.payload))]
            /\ pc' = "mcp_write"
            /\ UNCHANGED <<options, components, totalComponents, queue, files0, dirs0,
                           mcpJson0, started, report, exitCode, log,
                           successfullyInstalled, inflight, invocations, fetched, handlers>>
    /\ UNCHANGED <<files, execs, mcpJson, stack, downloadedFiles, prompts>>

\* fs.writeJson(targetMcpFile, mergedConfig)
WriteMCP ==
    /\ pc = "mcp_write"
    /\ mcpJson' = McpFile(cur.merged)
    /\ Return("true", {targetMcpFile}, FALSE, McpFile(cur.merged))
    /\ UNCHANGED <<files, dirs, execs, stack, downloadedFiles, prompts>>

(***************************************************************************)
(* installIndividualSkill                                                   *)
(***************************************************************************)
\* a directory whose loop over the listing has ended returns to its caller
RECURSIVE DropEmpty(_)
DropEmpty(st) ==
    IF Len(st) > 0 /\ Len(st[Len(st)].items) = 0
    THEN DropEmpty(SubSeq(st, 1, Len(st) - 1))
    ELSE st

\* relativePath ? `${relativePath}/${item.name}` : item.name
ItemPath(relativePath, name) ==
    IF Truthy(relativePath) THEN relativePath \o <<"/">> \o name ELSE name

\* item.name.endsWith('.py') || item.name.endsWith('.sh')
IsExecutable(name) == EndsWith(name, ".py") \/ EndsWith(name, ".sh")

\* the deepest recursion of downloadDirectory that is followed
MaxDepth == 4

\* await downloadDirectory(item.url, itemPath): the listing served at item.url
ChildListingRoot(remote, item) == remote.root
ChildListing(remote, item) == remote[item.url]

\* the top-level listing has answered
SkillListed ==
    /\ pc = "fetching" /\ cur.kind = "skill"
    /\ IF cur.status # 200
       THEN /\ Return("false", {}, FALSE, mcpJson)
            /\ UNCHANGED <<stack, downloadedFiles>>
       ELSE /\ stack' = DropEmpty(<<[items |-> cur.remote.root.items, rel |-> <<>>]>>)
            /\ downloadedFiles' = EmptyObject
            /\ pc' = "skill_walk"
            /\ UNCHANGED <<options, components, totalComponents, queue, files0, dirs0,
                           mcpJson0, started, report, exitCode, log,
                           successfullyInstalled, inflight, cur, invocations, fetched, handlers>>
    /\ UNCHANGED <<files, dirs, execs, mcpJson, prompts>>

\* downloadDirectory handles the next item of the listing it is in
SkillWalk ==
    /\ pc = "skill_walk" /\ stack # <<>>
    /\ LET top == stack[Len(stack)]
           item == Head(top.items)
           itemPath == ItemPath(top.rel, item.name)
           below == SubSeq(stack, 1, Len(stack) - 1)
           rest == below \o <<[top EXCEPT !.items = Tail(top.items)]>>
       IN  IF item.type = "file"
           THEN /\ downloadedFiles' =
                      IF item.ok
                      THEN SetKey(downloadedFiles, SkillTargetPath(cur.name, itemPath),
                                  [content |-> Body(DownloadUrl(cur.name, itemPath)),
                                   executable |-> IsExecutable(item.name)])
                      ELSE downloadedFiles
                /\ stack' = DropEmpty(rest)
                /\ fetched' = fetched \o Fetch(cur.index, DownloadUrl(cur.name, itemPath))
           ELSE /\ downloadedFiles' = downloadedFiles
                /\ fetched' = fetched \o Fetch(cur.index, ListingUrl(cur.name, item.url))
                /\ stack' = DropEmpty(
                      IF ChildListing(cur.remote, item).status = 200
                      THEN rest \o <<[items |-> ChildListing(cur.remote, item).items,
                                      rel |-> itemPath]>>
                      ELSE rest)
                /\ ChildListing(cur.remote, item).status = 200 => Len(stack) < MaxDepth
    /\ UNCHANGED <<options, pc, components, totalComponents, successfullyInstalled,
                   queue, cur, inflight, files, dirs, execs, mcpJson, files0, dirs0,
                   mcpJson0, prompts, started, log, report, exitCode, invocations, handlers>>

\* if (!downloadedFiles[skillMdPath]) return false
SentinelAnywhere(skillName) ==
    \E p \in DOMAIN downloadedFiles : EndsWith(p, "SKILL.md")
SentinelDownloaded(skillName) ==
    SkillTargetPath(skillName, SkillMd) \in DOMAIN downloadedFiles

SkillOutcomeWritesPartial(c) ==
    IF ~c.fsok THEN Untouched("false")
    ELSE Outcome(IF SentinelDownloaded(c.name) THEN "true" ELSE "false",
                 Spread(files, [p \in DOMAIN downloadedFiles |-> downloadedFiles[p].content]),
                 UNION ({EnsureDir(dirs, skillsDir)}
                          \cup {Ancestors(Dirname(p)) : p \in DOMAIN downloadedFiles}),
                 DOMAIN downloadedFiles)
SkillOutcomeAllOrNothing(c) ==
    IF \/ ~SentinelDownloaded(c.name)
       \/ \E i \in DOMAIN c.remote.root.items : ~c.remote.root.items[i].ok
    THEN Untouched("false")
    ELSE IF ~c.fsok THEN Untouched("false")
    ELSE Outcome("true",
                 Spread(files, [p \in DOMAIN downloadedFiles |-> downloadedFiles[p].content]),
                 UNION ({EnsureDir(dirs, skillsDir)}
                          \cup {Ancestors(Dirname(p)) : p \in DOMAIN downloadedFiles}),
                 DOMAIN downloadedFiles)
SkillOutcome(c) ==
    IF ~SentinelDownloaded(c.name) THEN Untouched("false")
    ELSE IF ~c.fsok THEN Untouched("false")
    ELSE Outcome("true",
                 Spread(files, [p \in DOMAIN downloadedFiles |-> downloadedFiles[p].content]),
                 UNION ({EnsureDir(dirs, skillsDir)}
                          \cup {Ancestors(Dirname(p)) : p \in DOMAIN downloadedFiles}),
                 DOMAIN downloadedFiles)

\* the walk is over: check the sentinel and write the files
SkillFinish ==
    /\ pc = "skill_walk" /\ stack = <<>>
    /\ LET o == SkillOutcome(cur) IN
          /\ files' = o.files
          /\ dirs' = o.dirs
          /\ execs' = IF o.result = "true"
                      THEN execs \cup {p \in DOMAIN downloadedFiles :
                                          downloadedFiles[p].executable}
                      ELSE execs
          /\ Return(o.result, o.wrote, FALSE, mcpJson)
    /\ downloadedFiles' = EmptyObject
    /\ UNCHANGED <<mcpJson, stack, prompts>>

(***************************************************************************)
(* installMultipleComponents: the final report; the exit of the process     *)
(***************************************************************************)
\* the install loops have run to their end
LoopsFinishedOrFailed == queue = <<>> \/ (log # <<>> /\ log[Len(log)].result # "true")
LoopsFinished == queue = <<>>

\* the final message, from the counter and the number of requests
ReportOfAnySuccess(installed, total) ==
    IF installed > 0
    THEN [msg |-> "all installed", installed |-> installed, total |-> total, failed |-> 0]
    ELSE [msg |-> "none installed", installed |-> 0, total |-> total, failed |-> total]
ReportOf(installed, total) ==
    IF installed = total
    THEN [msg |-> "all installed", installed |-> installed, total |-> total, failed |-> 0]
    ELSE IF installed > 0
    THEN [msg |-> "partly installed", installed |-> installed, total |-> total,
          failed |-> total - installed]
    ELSE [msg |-> "none installed", installed |-> 0, total |-> total, failed |-> total]

Report ==
    /\ LoopMayStart
    /\ LoopsFinished
    /\ report' = ReportOf(successfullyInstalled, totalComponents)
    /\ pc' = "done"
    /\ exitCode' = ExitCode(FALSE)
    /\ UNCHANGED <<options, components, totalComponents, successfullyInstalled, queue,
                   cur, inflight, files, dirs, execs, mcpJson, files0, dirs0, mcpJson0,
                   stack, downloadedFiles, prompts, started, log, invocations, fetched, handlers>>

Next ==
    \/ ParseOptions
    \/ StartInstall
    \/ FinishAgent
    \/ FinishPrompt
    \/ FinishInstruction
    \/ FinishCopilotInstructions
    \/ FinishWorkspaceAgents
    \/ ReadMergeMCP
    \/ WriteMCP
    \/ SkillListed
    \/ SkillWalk
    \/ SkillFinish
    \/ Report

Spec == Init /\ [][Next]_vars

(***************************************************************************)
(* The parsing of the options alone, over all short option values           *)
(***************************************************************************)
\* the longest option value, in tokens
MaxLen == 5

\* the tokens of an option value: two names, the blank and the comma
Alphabet == {"n", "m", " ", ","}

\* the strings of at most k tokens
StringsUpTo(k) == UNION {[1..len -> Alphabet] : len \in 0..k}

\* an option given once is a string; given as a list it is an array of strings
RawValues ==
    {StringValue(s) : s \in StringsUpTo(MaxLen)}
        \cup {ArrayValue(<<>>)}
        \cup {ArrayValue(<<s>>) : s \in StringsUpTo(2)}
        \cup {ArrayValue(<<s, t>>) : s, t \in StringsUpTo(2)}

NoOptions ==
    [agent |-> Absent, mcp |-> Absent, skill |-> Absent, instruction |-> Absent,
     prompt |-> Absent, copilotInstructions |-> Absent, workspaceAgents |-> Absent,
     yes |-> FALSE]

MultiValueOptions == {"agent", "mcp", "skill", "instruction", "prompt"}

\* the option records in which one multi-value option has a value
ParseInputs ==
    {[NoOptions EXCEPT ![k] = v] : k \in MultiValueOptions, v \in RawValues}

\* the state in which a run over the options o in the project p begins at `at`
InitialState(o, p, at) ==
    /\ options = o
    /\ files = p.files /\ files0 = p.files
    /\ dirs = p.dirs /\ dirs0 = p.dirs
    /\ mcpJson = p.mcpJson /\ mcpJson0 = p.mcpJson
    /\ execs = {}
    /\ pc = at
    /\ components = ParseComponents(NoOptions)
    /\ totalComponents = 0
    /\ successfullyInstalled = 0
    /\ queue = <<>>
    /\ cur = NoCur
    /\ inflight = {}
    /\ stack = <<>>
    /\ downloadedFiles = EmptyObject
    /\ prompts = 0
    /\ started = <<>>
    /\ log = <<>>
    /\ report = NoReport
    /\ exitCode = -1
    /\ invocations = NoInvocations
    /\ fetched = <<>>
    /\ handlers = <<>>

InitParse == \E o \in ParseInputs : InitialState(o, ProjectEmpty, "batch")

NextParse == ParseOptions

SpecParse == InitParse /\ [][NextParse]_vars

(***************************************************************************)
(* The program from its top-level action, over identifiers with several     *)
(* separators                                                               *)
(***************************************************************************)
\* "a/b/c"
IdNested == <<"a", "/", "b", "/", "c">>
\* "x,y": a template name with a comma
NameWithComma == <<"x", ",", "y">>

CliOptionRecords ==
    [agent : {Absent, StringValue(IdNested), StringValue(IdPlain)},
     mcp : {Absent, RawOne},
     skill : {Absent, StringValue(IdNested)},
     instruction : {Absent, StringValue(IdNested)},
     prompt : {Absent, StringValue(IdNested)},
     copilotInstructions : {Absent, StringValue(NameWithComma)},
     workspaceAgents : {Absent, StringValue(NameWithComma)},
     yes : BOOLEAN,
     directory : {Absent, StringValue(<<"project">>)}]

CliOptions ==
    {o \in CliOptionRecords : BatchRequested(o) /\ TotalOf(ParseComponents(o)) <= MaxItems}

\* options.directory || process.cwd(): the working directory is asked for only
\* when no directory is given, and the call throws when it is gone
CwdAnswers(o) == IF OptionSet(o.directory) THEN {"unused"} ELSE {"found", "gone"}

InitCli ==
    \E o \in CliOptions, p \in {ProjectEmpty, ProjectConfigured} :
       InitialState(o, p, "action")

\* if (options.x): an option the command line did not give is undefined
Given(o, name) == name \in DOMAIN o /\ OptionSet(o[name])

\* the branches of createCopilotConfig in the order of the code: each is
\* `if (when) { await call(...); return; }`
DispatchTable(o) ==
    <<[when |-> BatchRequested(o), call |-> "installMultipleComponents"],
      [when |-> Given(o, "createAgent"), call |-> "createGlobalAgent"],
      [when |-> Given(o, "listAgents"), call |-> "listGlobalAgents"],
      [when |-> Given(o, "removeAgent"), call |-> "removeGlobalAgent"],
      [when |-> Given(o, "updateAgent"), call |-> "updateGlobalAgent"],
      [when |-> Given(o, "workspaceAgents"), call |-> "installWorkspaceAgents"],
      [when |-> Given(o, "copilotInstructions"), call |-> "installCopilotInstructions"],
      [when |-> Given(o, "instruction"), call |-> "installInstruction"],
      [when |-> Given(o, "prompt"), call |-> "installPromptFile"],
      [when |-> Given(o, "learningPath"), call |-> "installLearningPath"],
      [when |-> Given(o, "healthCheck"), call |-> "runHealthCheck"],
      [when |-> TRUE, call |-> "projectSetup"]>>

\* the handlers one call of createCopilotConfig calls: the first branch whose
\* condition holds, after which the function returns
HandlersCalledFallThrough(o) ==
    LET t == DispatchTable(o)
        RECURSIVE Calls(_)
        Calls(i) == IF i > Len(t) THEN <<>>
                    ELSE IF t[i].when THEN <<t[i].call>> \o Calls(i + 1)
                    ELSE Calls(i + 1)
    IN  Calls(1)
HandlersCalled(o) ==
    LET t == DispatchTable(o)
        first == CHOOSE i \in DOMAIN t : t[i].when /\ \A j \in 1..(i - 1) : ~t[j].when
    IN  <<t[first].call>>

\* where the model goes on in the handler that was called
EntryOf(handler) ==
    CASE handler = "installMultipleComponents" -> "batch"
      [] handler = "installLearningPath" -> "path"
      [] OTHER -> "handler"

\* the action of the program calls createCopilotConfig, which resolves the
\* target directory and hands the options to the first handler they ask for;
\* an error thrown out of it is printed and ends the process with code 1
CreateCopilotConfig ==
    /\ pc = "action"
    /\ \E cwd \in CwdAnswers(options) :
          IF cwd = "gone"
          THEN /\ report' = [msg |-> "Error:", installed |-> 0, total |-> 0, failed |-> 0]
               /\ exitCode' = ExitCode(TRUE)
               /\ pc' = "done"
               /\ UNCHANGED handlers
          ELSE /\ handlers' = HandlersCalled(options)
               /\ pc' = EntryOf(Head(HandlersCalled(options)))
               /\ UNCHANGED <<report, exitCode>>
    /\ UNCHANGED <<options, components, totalComponents, successfullyInstalled, queue,
                   cur, inflight, files, dirs, execs, mcpJson, files0, dirs0, mcpJson0,
                   stack, downloadedFiles, prompts, started, log, invocations, fetched>>

NextCli ==
    \/ CreateCopilotConfig
    \/ ParseOptions
    \/ StartInstall
    \/ FinishAgent
    \/ FinishPrompt
    \/ FinishInstruction
    \/ FinishCopilotInstructions
    \/ FinishWorkspaceAgents
    \/ ReadMergeMCP
    \/ WriteMCP
    \/ SkillListed
    \/ SkillWalk
    \/ SkillFinish
    \/ Report

SpecCli == InitCli /\ [][NextCli]_vars

(***************************************************************************)
(* createCopilotConfig over options that ask for several handlers at once   *)
(***************************************************************************)
DispatchOptionRecords ==
    [agent : {Absent, StringValue(IdPlain)},
     mcp : {Absent, StringValue(IdPlain)},
     skill : {Absent, StringValue(IdPlain)},
     instruction : {Absent, StringValue(IdPlain)},
     prompt : {Absent, StringValue(IdPlain)},
     copilotInstructions : {Absent, StringValue(<<"beginner-friendly">>)},
     workspaceAgents : {Absent, StringValue(<<"python-tutors">>)},
     yes : {FALSE},
     directory : {Absent, StringValue(<<"project">>)},
     createAgent : {Absent, StringValue(IdPlain)},
     listAgents : {Absent, StringValue(<<"true">>)},
     removeAgent : {Absent, StringValue(IdPlain)},
     updateAgent : {Absent, StringValue(IdPlain)},
     learningPath : {Absent, StringValue(<<"python-beginner">>)},
     healthCheck : {Absent, StringValue(<<"true">>)}]

InitDispatch == \E o \in DispatchOptionRecords : InitialState(o, ProjectEmpty, "action")

NextDispatch ==
    \/ CreateCopilotConfig
    \/ ParseOptions

SpecDispatch == InitDispatch /\ [][NextDispatch]_vars

(***************************************************************************)
(* installLearningPath                                                      *)
(***************************************************************************)
PathOptions(yes) ==
    [agent |-> Absent, mcp |-> Absent, skill |-> Absent, instruction |-> Absent,
     prompt |-> Absent, copilotInstructions |-> Absent, workspaceAgents |-> Absent,
     yes |-> yes, learningPath |-> StringValue(<<"python-beginner">>)]

\* the lists a manifest may give for a kind
IdentifierLists == {<<>>, <<IdPlain>>, <<IdCategory>>, <<IdPlain, IdCategory>>}

\* a manifest without any of the four lists
ManifestBare == [name |-> "a path", level |-> "beginner"]

\* the manifests the remote may serve
Manifests ==
    {m \in [agents : IdentifierLists, skills : {<<>>, <<IdCategory>>},
            instructions : {<<>>, <<IdPlain>>}, prompts : IdentifierLists] :
        Len(m.agents) + Len(m.skills) + Len(m.instructions) + Len(m.prompts) <= MaxItems}
      \cup {ManifestBare}

\* pathManifest.agents && pathManifest.agents.length > 0 ? the list : nothing
ManifestList(m, key) == IF key \in DOMAIN m THEN m[key] ELSE <<>>

\* the answers to the fetch of the manifest; a body that is not JSON makes
\* response.json() throw
ManifestAnswers ==
    {[status |-> 200, json |-> TRUE, manifest |-> m] : m \in Manifests}
       \cup {[status |-> 200, json |-> FALSE, manifest |-> ManifestBare]}
       \cup {[status |-> st, json |-> TRUE, manifest |-> ManifestBare] : st \in {404, 500}}

\* the four loops of installLearningPath, in their order
PathRequestsPromptsFirst(m) ==
    Tag("prompt", ManifestList(m, "prompts")) \o Tag("agent", ManifestList(m, "agents"))
        \o Tag("skill", ManifestList(m, "skills"))
        \o Tag("instruction", ManifestList(m, "instructions"))
PathRequests(m) ==
    Tag("agent", ManifestList(m, "agents")) \o Tag("skill", ManifestList(m, "skills"))
        \o Tag("instruction", ManifestList(m, "instructions"))
        \o Tag("prompt", ManifestList(m, "prompts"))

InitPath ==
    \E yes \in BOOLEAN, p \in {ProjectEmpty, ProjectConfigured} :
       InitialState(PathOptions(yes), p, "path")

PathMessage(msg) == [msg |-> msg, installed |-> 0, total |-> 0, failed |-> 0]

\* .../components/learning-paths/${pathName}.json
ManifestUrl(pathName) ==
    <<"raw/components/learning-paths/">> \o pathName.val \o <<".json">>

\* the manifest is fetched and read
FetchManifest ==
    /\ pc = "path"
    /\ \E a \in ManifestAnswers :
          IF a.status = 404
          THEN /\ report' = PathMessage("learning path not found")
               /\ pc' = "done"
               /\ exitCode' = ExitCode(FALSE)
               /\ UNCHANGED <<components, queue>>
          ELSE IF a.status # 200 \/ ~a.json
          THEN /\ report' = PathMessage("error installing learning path")
               /\ pc' = "done"
               /\ exitCode' = ExitCode(FALSE)
               /\ UNCHANGED <<components, queue>>
          ELSE /\ components' =
                     [agents |-> ManifestList(a.manifest, "agents"),
                      mcps |-> <<>>,
                      skills |-> ManifestList(a.manifest, "skills"),
                      instructions |-> ManifestList(a.manifest, "instructions"),
                      prompts |-> ManifestList(a.manifest, "prompts"),
                      copilotInstructions |-> <<>>,
                      workspaceAgents |-> <<>>]
               /\ queue' = PathRequests(a.manifest)
               /\ pc' = "loop"
               /\ UNCHANGED <<report, exitCode>>
    /\ fetched' = fetched \o Fetch(0, ManifestUrl(options.learningPath))
    /\ UNCHANGED <<options, totalComponents, successfullyInstalled, cur, inflight,
                   files, dirs, execs, mcpJson, files0, dirs0, mcpJson0, stack,
                   downloadedFiles, prompts, started, log, invocations, handlers>>

\* the list of the manifest a request is taken from
PathListOf(request) ==
    CASE request.kind = "agent" -> components.agents
      [] request.kind = "skill" -> components.skills
      [] request.kind = "instruction" -> components.instructions
      [] request.kind = "prompt" -> components.prompts

\* totalComponents += list.length, when the loop over a list begins
PathTotalAtLoopHead(request) ==
    IF \E i \in DOMAIN started : started[i].kind = request.kind
    THEN totalComponents
    ELSE totalComponents + Len(PathListOf(request))

\* a loop of installLearningPath calls the installer of its next entry
PathStartInstall ==
    /\ LoopMayStart
    /\ queue # <<>>
    /\ \E a \in Answers(Head(queue).kind) :
          cur' = [kind |-> Head(queue).kind, name |-> Head(queue).name,
                  index |-> Len(started) + 1,
                  status |-> a.status, fsok |-> a.fsok, payload |-> a.payload,
                  remote |-> a.remote, merged |-> EmptyObject]
    /\ totalComponents' = PathTotalAtLoopHead(Head(queue))
    /\ queue' = Tail(queue)
    /\ started' = Append(started, Head(queue))
    /\ inflight' = inflight \cup {Len(started) + 1}
    /\ fetched' = fetched \o Fetch(Len(started) + 1,
                                    GithubUrl(Head(queue).kind, Head(queue).name))
    /\ pc' = "fetching"
    /\ UNCHANGED <<options, components, successfullyInstalled, files, dirs, execs,
                   mcpJson, files0, dirs0, mcpJson0, stack, downloadedFiles, prompts,
                   log, report, exitCode, invocations, handlers>>

PathReportOf(installed, total) ==
    IF installed = total
    THEN [msg |-> "learning path installed", installed |-> installed, total |-> total,
          failed |-> 0]
    ELSE IF installed > 0
    THEN [msg |-> "learning path partially installed", installed |-> installed,
          total |-> total, failed |-> total - installed]
    ELSE [msg |-> "learning path installation failed", installed |-> 0, total |-> total,
          failed |-> total]

PathReport ==
    /\ LoopMayStart
    /\ LoopsFinished
    /\ report' = PathReportOf(successfullyInstalled, totalComponents)
    /\ pc' = "done"
    /\ exitCode' = ExitCode(FALSE)
    /\ UNCHANGED <<options, components, totalComponents, successfullyInstalled, queue,
                   cur, inflight, files, dirs, execs, mcpJson, files0, dirs0, mcpJson0,
                   stack, downloadedFiles, prompts, started, log, invocations, fetched, handlers>>

NextPath ==
    \/ FetchManifest
    \/ PathStartInstall
    \/ FinishAgent
    \/ FinishPrompt
    \/ FinishInstruction
    \/ SkillListed
    \/ SkillWalk
    \/ SkillFinish
    \/ PathReport

SpecPath == InitPath /\ [][NextPath]_vars

(***************************************************************************)
(* Two invocations of the tool that install an MCP into one project         *)
(***************************************************************************)
\* the invocations of the tool
Invocation == {1, 2}

InitConcurrent ==
    \E p \in Projects :
       InitialState([NoOptions EXCEPT !.mcp = StringValue(IdPlain)], p, "concurrent")

\* an invocation of the tool is started; its batch calls installIndividualMCP,
\* which issues its fetch
StartInvocation(i) ==
    /\ pc = "concurrent"
    /\ i \notin DOMAIN invocations
    /\ \E a \in Answers("mcp") :
          invocations' =
             [j \in DOMAIN invocations \cup {i} |->
                 IF j = i
                 THEN [pc |-> "fetching", name |-> IdPlain, status |-> a.status,
                       fsok |-> a.fsok, payload |-> a.payload, read |-> NoMcpFile,
                       readAt |-> 0, merged |-> EmptyObject, result |-> "none"]
                 ELSE invocations[j]]
    /\ fetched' = fetched \o Fetch(i, GithubUrl("mcp", IdPlain))
    /\ UNCHANGED <<options, pc, components, totalComponents, successfullyInstalled, queue,
                   cur, inflight, files, dirs, execs, mcpJson, files0, dirs0, mcpJson0,
                   stack, downloadedFiles, prompts, started, log, report, exitCode,
                   handlers>>

\* the fetch of an invocation has answered: parse, strip, read the existing
\* file and merge
InvocationReadMerge(i) ==
    /\ i \in DOMAIN invocations
    /\ invocations[i].pc = "fetching"
    /\ IF invocations[i].status = 404
       THEN /\ invocations' = [invocations EXCEPT ![i].pc = "returned",
                                                  ![i].result = "undefined"]
            /\ UNCHANGED dirs
       ELSE IF invocations[i].status # 200 \/ ~invocations[i].fsok
       THEN /\ invocations' = [invocations EXCEPT ![i].pc = "returned",
                                                  ![i].result = "false"]
            /\ UNCHANGED dirs
       ELSE /\ dirs' = EnsureDir(dirs, vscodeDir)
            /\ invocations' =
                  [invocations EXCEPT
                      ![i].pc = "mcp_write",
                      ![i].read = mcpJson,
                      ![i].readAt = Len(log),
                      ![i].merged = MergedConfig(ExistingConfig,
                                                 NewServers(invocations[i].payload))]
    /\ UNCHANGED <<options, pc, components, totalComponents, successfullyInstalled, queue,
                   cur, inflight, files, execs, mcpJson, files0, dirs0, mcpJson0, stack,
                   downloadedFiles, prompts, started, log, report, exitCode, fetched, handlers>>

\* fs.writeJson(targetMcpFile, mergedConfig) of an invocation
InvocationWrite(i) ==
    /\ i \in DOMAIN invocations
    /\ invocations[i].pc = "mcp_write"
    /\ mcpJson' = McpFile(invocations[i].merged)
    /\ invocations' = [invocations EXCEPT ![i].pc = "returned", ![i].result = "true"]
    /\ log' = Append(log, [kind |-> "mcp", name |-> invocations[i].name,
                           invocation |-> i, payload |-> invocations[i].payload,
                           result |-> "true", read |-> invocations[i].read,
                           readAt |-> invocations[i].readAt, before |-> mcpJson,
                           after |-> McpFile(invocations[i].merged)])
    /\ UNCHANGED <<options, pc, components, totalComponents, successfullyInstalled, queue,
                   cur, inflight, files, dirs, execs, files0, dirs0, mcpJson0, stack,
                   downloadedFiles, prompts, started, report, exitCode, fetched, handlers>>

NextConcurrent ==
    \E i \in Invocation :
       \/ StartInvocation(i)
       \/ InvocationReadMerge(i)
       \/ InvocationWrite(i)

SpecConcurrent == InitConcurrent /\ [][NextConcurrent]_vars

(***************************************************************************)
(* MCP installs over payloads and files that are not JSON documents         *)
(***************************************************************************)
\* a project whose MCP file is not JSON
ProjectBroken ==
    [files |-> EmptyObject, dirs |-> {vscodeDir}, mcpJson |-> McpFile(PayloadNotJson)]

McpPayloads == Payloads \cup {PayloadNotJson, PayloadNull, PayloadNumber}

McpAnswers ==
    {Answer(200, TRUE, p, RemoteNotFound) : p \in McpPayloads}
       \cup {Answer(200, FALSE, PayloadServers, RemoteNotFound)}
       \cup {Answer(st, TRUE, EmptyObject, RemoteNotFound) : st \in {404, 500}}

InitMcp ==
    \E p \in Projects \cup {ProjectBroken}, v \in {StringValue(IdPlain), RawTwo} :
       InitialState([NoOptions EXCEPT !.mcp = v], p, "batch")

\* the batch calls installIndividualMCP, which fetches the payload
McpStartInstall == StartInstallAnswered(McpAnswers)

NextMcp ==
    \/ ParseOptions
    \/ McpStartInstall
    \/ ReadMergeMCP
    \/ WriteMCP
    \/ Report

SpecMcp == InitMcp /\ [][NextMcp]_vars

(***************************************************************************)
(* A batch that names one identifier twice                                  *)
(***************************************************************************)
\* "n,n", "c/n, c/n" and ["n", "n"]
RawTwice ==
    {StringValue(<<"n", ",", "n">>),
     StringValue(<<"c", "/", "n", ",", " ", "c", "/", "n">>),
     ArrayValue(<<IdPlain, IdPlain>>)}

InitTwice ==
    \E p \in Projects, k \in MultiValueOptions, v \in RawTwice :
       InitialState([NoOptions EXCEPT ![k] = v], p, "batch")

NextTwice ==
    \/ ParseOptions
    \/ StartInstall
    \/ FinishAgent
    \/ FinishPrompt
    \/ FinishInstruction
    \/ ReadMergeMCP
    \/ WriteMCP
    \/ SkillListed
    \/ SkillWalk
    \/ SkillFinish
    \/ Report

SpecTwice == InitTwice /\ [][NextTwice]_vars

(***************************************************************************)
(* One skill install over listings that may lead back to an ancestor        *)
(***************************************************************************)
\* a listing whose subdirectory entry leads back to the skill root
RemoteCyclic ==
    [root |-> Listing(200, <<FileItem(SkillMd, TRUE), DirItem(<<"again">>, "root")>>),
     d1 |-> Listing(404, <<>>)]

\* a listing whose subdirectory has an entry that leads back to the skill root
RemoteCyclicBelow ==
    [root |-> Listing(200, <<FileItem(SkillMd, TRUE), DirItem(<<"docs">>, "d1")>>),
     d1 |-> Listing(200, <<FileItem(<<"guide.md">>, TRUE), DirItem(<<"up">>, "root")>>)]

WalkRemotes == SkillRemotes \cup {RemoteCyclic, RemoteCyclicBelow}

WalkAnswers == {Answer(r.root.status, TRUE, EmptyObject, r) : r \in WalkRemotes}

InitWalk ==
    \E p \in Projects, name \in {IdPlain, IdCategory} :
       InitialState([NoOptions EXCEPT !.skill = StringValue(name)], p, "batch")

\* the batch calls installIndividualSkill, which requests the top-level listing
WalkStartInstall == StartInstallAnswered(WalkAnswers)

NextWalk ==
    \/ ParseOptions
    \/ WalkStartInstall
    \/ SkillListed
    \/ SkillWalk
    \/ SkillFinish
    \/ Report

\* the remote answers every request, and the continuation of an await runs
\* once its promise is settled
SpecWalk == InitWalk /\ [][NextWalk]_vars /\ WF_vars(NextWalk)

(***************************************************************************)
(* Vocabulary of the properties                                             *)
(***************************************************************************)
Entries == {log[i] : i \in DOMAIN log}

\* the kinds whose identifier may carry a category
CategoryKinds == {"agent", "prompt", "instruction", "skill"}

SlashCount(s) == Cardinality({i \in DOMAIN s : s[i] = "/"})

\* the name of an identifier "name" or "category/name"
NameOfIdentifier(s) ==
    IF SlashCount(s) = 0 THEN s
    ELSE SubSeq(s, (CHOOSE i \in DOMAIN s : s[i] = "/") + 1, Len(s))

\* the documented local destination of a single-file kind
DocumentedFile(kind, n) ==
    CASE kind = "agent" -> <<".github", "/", "agents", "/">> \o n \o <<".agent.md">>
      [] kind = "prompt" -> <<".github", "/", "prompts", "/">> \o n \o <<".prompt.md">>
      [] kind = "instruction" ->
            <<".github", "/", "instructions", "/">> \o n \o <<".instructions.md">>

\* the documented local directory of a skill, with the separator that ends it
DocumentedSkillDir(n) == <<".github", "/", "skills", "/">> \o n \o <<"/">>

StartsWith(p, prefix) ==
    Len(p) >= Len(prefix) /\ SubSeq(p, 1, Len(prefix)) = prefix

\* the server names a document defines, under either key
DefinedServers(doc) ==
    (IF "servers" \in DOMAIN doc THEN DOMAIN doc.servers ELSE {})
        \cup (IF "mcpServers" \in DOMAIN doc THEN DOMAIN doc.mcpServers ELSE {})

\* the entry a document gives a server name, read under either key
DefinedEntry(doc, name) ==
    IF "servers" \in DOMAIN doc /\ name \in DOMAIN doc.servers
    THEN doc.servers[name]
    ELSE doc.mcpServers[name]

\* the server mapping of a written MCP file
ServerMapping(file) ==
    IF file.exists /\ "servers" \in DOMAIN file.doc THEN file.doc.servers ELSE EmptyObject

WithoutDescription(entry) == [f \in DOMAIN entry \ {"description"} |-> entry[f]]

(***************************************************************************)
(* C1                                                                       *)
(***************************************************************************)
\* C1: for agents, prompts, instructions and skills, a successful install of
\* "c/n" writes to the destination of a successful install of "n": the file
\* .github/<kind>s/n.<ext>, for a skill the files below .github/skills/n/, and
\* two successful installs that differ in the category only write the same paths.
C1_CategoryNeverInLocalPath ==
    /\ \A e \in Entries :
          (e.result = "true" /\ e.kind \in CategoryKinds /\ SlashCount(e.name) <= 1) =>
             IF e.kind = "skill"
             THEN \A p \in e.wrote : StartsWith(p, DocumentedSkillDir(NameOfIdentifier(e.name)))
             ELSE e.wrote = {DocumentedFile(e.kind, NameOfIdentifier(e.name))}
    /\ \A e1, e2 \in Entries :
          (/\ e1.result = "true" /\ e2.result = "true"
           /\ e1.kind = e2.kind /\ e1.kind \in CategoryKinds
           /\ SlashCount(e2.name) = 0 /\ SlashCount(e1.name) = 1
           /\ NameOfIdentifier(e1.name) = e2.name
           /\ e1.remote = e2.remote) => e1.wrote = e2.wrote

\* a batch installed "n" and "c/n" of one kind, both with success
C1_Witness ==
    \E i, j \in DOMAIN log :
       /\ log[i].kind = "skill" /\ log[j].kind = "skill"
       /\ log[i].name = IdPlain /\ log[j].name = IdCategory
       /\ log[i].result = "true" /\ log[j].result = "true"
       /\ log[i].remote = RemoteComplete /\ log[j].remote = RemoteComplete

\* a batch installed the agents "n" and "c/n", both with success
C1_WitnessAgent ==
    \E i, j \in DOMAIN log :
       /\ log[i].kind = "agent" /\ log[j].kind = "agent"
       /\ log[i].name = IdPlain /\ log[j].name = IdCategory
       /\ log[i].result = "true" /\ log[j].result = "true"

(***************************************************************************)
(* C2                                                                       *)
(***************************************************************************)
\* C2: every successful MCP install keeps every server name the destination
\* file defined before the call, under `servers` or under `mcpServers`.
C2_NoServerDropped ==
    \A e \in Entries :
       (e.kind = "mcp" /\ e.result = "true" /\ e.before.exists) =>
          DefinedServers(e.before.doc) \subseteq DefinedServers(e.after.doc)

(***************************************************************************)
(* C3                                                                       *)
(***************************************************************************)
\* C3: after two successful MCP installs one after the other, the keys of the
\* file's server mapping are the server names of both payloads and the keys
\* the mapping had before; a name both payloads define has the second
\* payload's entry.
C3_UnionIncomingWins ==
    \A i, j \in DOMAIN log :
       (/\ i < j
        /\ log[i].kind = "mcp" /\ log[j].kind = "mcp"
        /\ log[i].result = "true" /\ log[j].result = "true"
        /\ \A k \in DOMAIN log : (i < k /\ k < j) => log[k].result # "true") =>
          /\ DOMAIN ServerMapping(log[j].after) =
                DefinedServers(log[i].payload) \cup DefinedServers(log[j].payload)
                   \cup DOMAIN ServerMapping(log[i].before)
          /\ \A name \in DefinedServers(log[j].payload) :
                ServerMapping(log[j].after)[name] =
                   WithoutDescription(DefinedEntry(log[j].payload, name))
          /\ \A name \in DefinedServers(log[i].payload) \ DefinedServers(log[j].payload) :
                ServerMapping(log[j].after)[name] =
                   WithoutDescription(DefinedEntry(log[i].payload, name))

\* two installs in a row whose payloads define the same server differently
C3_Witness ==
    \E i, j \in DOMAIN log :
       /\ j = i + 1
       /\ log[i].kind = "mcp" /\ log[j].kind = "mcp"
       /\ log[i].result = "true" /\ log[j].result = "true"
       /\ log[i].payload = PayloadServers /\ log[j].payload = PayloadCollide
       /\ mcpJson.doc.servers["s1"] = EntryReplacement

\* two installs in a row whose payloads define different servers
C3_WitnessDisjoint ==
    \E i, j \in DOMAIN log :
       /\ j = i + 1
       /\ log[i].kind = "mcp" /\ log[j].kind = "mcp"
       /\ log[i].result = "true" /\ log[j].result = "true"
       /\ log[i].payload = PayloadServers /\ log[j].payload = PayloadLegacy
       /\ DOMAIN mcpJson.doc.servers = {"s1", "s2"}

(***************************************************************************)
(* C4                                                                       *)
(***************************************************************************)
\* C4: in a project that had no MCP file, no server entry of the written
\* .vscode/mcp.json has a `description` field, whatever key the payloads used.
C4_NoDescriptionWritten ==
    ~mcpJson0.exists =>
       \A name \in DOMAIN ServerMapping(mcpJson) :
          "description" \notin DOMAIN ServerMapping(mcpJson)[name]

\* a payload under `servers` and one under `mcpServers`, both with described
\* entries, were installed into a project without MCP file
C4_Witness ==
    /\ ~mcpJson0.exists
    /\ mcpJson.exists
    /\ DOMAIN ServerMapping(mcpJson) = {"s1", "s2"}
    /\ \E e \in Entries : e.kind = "mcp" /\ e.result = "true" /\ e.payload = PayloadLegacy
    /\ \E e \in Entries : e.kind = "mcp" /\ e.result = "true" /\ e.payload = PayloadServers

(***************************************************************************)
(* C5                                                                       *)
(***************************************************************************)
Failure == {"false", "undefined"}

\* C5: the step in which an install of any kind receives HTTP 404 returns a
\* value that is not success to the batch, leaves every file, directory, mode
\* and the MCP file as they were, does not count the item, and leaves the
\* rest of the batch pending; the report never counts such an item.
C5_NotFoundWritesNothing ==
    [][/\ (pc = "fetching" /\ cur.status = 404) =>
             /\ files' = files /\ dirs' = dirs /\ execs' = execs /\ mcpJson' = mcpJson
             /\ pc' = "loop" /\ queue' = queue
             /\ successfullyInstalled' = successfullyInstalled
             /\ Len(log') = Len(log) + 1
             /\ log'[Len(log')].status = 404
             /\ log'[Len(log')].result \in Failure
       /\ (pc' = "done" /\ pc # "done") =>
             report'.installed <= Cardinality({i \in DOMAIN log : log[i].status # 404})
      ]_vars

\* a batch is over in which every item was answered 404: two MCPs, which
\* return undefined, and a skill, which returns false
C5_Witness ==
    /\ pc = "done"
    /\ Len(log) = 3
    /\ \A i \in DOMAIN log : log[i].status = 404
    /\ \E i, j \in DOMAIN log :
          /\ log[i].kind = "mcp" /\ log[i].result = "undefined"
          /\ log[j].kind = "skill" /\ log[j].result = "false"
    /\ files = files0 /\ dirs = dirs0 /\ mcpJson = mcpJson0
    /\ report.msg = "none installed"

(***************************************************************************)
(* C6                                                                       *)
(***************************************************************************)
\* the listing of the skill's root names a file SKILL.md that can be downloaded
RootSentinelServed(remote) ==
    /\ remote.root.status = 200
    /\ \E i \in DOMAIN remote.root.items :
          /\ remote.root.items[i].type = "file"
          /\ remote.root.items[i].name = <<"SKILL.md">>
          /\ remote.root.items[i].ok

\* the files of a remote skill that can be downloaded, SKILL.md at the root apart
OtherFilesServed(remote) ==
    \E i \in DOMAIN remote.root.items :
       /\ remote.root.items[i].type = "file"
       /\ remote.root.items[i].name # <<"SKILL.md">>
       /\ remote.root.items[i].ok

\* C6: a skill install whose remote yields no downloaded SKILL.md at the
\* skill's root returns failure, and the counter of successful installs counts
\* only installs that returned success.
C6_MissingSentinelFails ==
    /\ \A e \in Entries :
          (e.kind = "skill" /\ ~RootSentinelServed(e.remote)) => e.result = "false"
    /\ successfullyInstalled = Cardinality({i \in DOMAIN log : log[i].result = "true"})

\* a skill whose other files were downloaded, and whose SKILL.md lies only in
\* a subdirectory, has failed
C6_Witness ==
    \E e \in Entries :
       /\ e.kind = "skill" /\ e.remote = RemoteNoSentinel
       /\ OtherFilesServed(e.remote)
       /\ e.result = "false"

(***************************************************************************)
(* C7                                                                       *)
(***************************************************************************)
Succeeded == Cardinality({i \in DOMAIN log : log[i].result = "true"})

\* C7: when the batch is over the process exit code is 0 and the report
\* follows from the number of requests attempted and the number of installs
\* that returned success: none attempted gives the informational message and
\* no install; all succeeded gives the success message; some but not all gives
\* "succeeded of attempted" and the number that failed.
C7_ReportFromCounts ==
    pc = "done" =>
       /\ exitCode = 0
       /\ Len(log) = Len(started)
       /\ (Len(started) = 0) =>
             /\ report.msg = "no components specified"
             /\ files = files0 /\ dirs = dirs0 /\ mcpJson = mcpJson0
       /\ (Len(started) > 0 /\ Succeeded = Len(started)) =>
             /\ report.msg = "all installed"
             /\ report.installed = Len(started)
       /\ (0 < Succeeded /\ Succeeded < Len(started)) =>
             /\ report.msg = "partly installed"
             /\ report.installed = Succeeded
             /\ report.total = Len(started)
             /\ report.failed = Len(started) - Succeeded

\* agent ok, agent 404, skill ok: 2 of 3 installed, 1 failed, exit code 0
C7_Witness ==
    /\ pc = "done" /\ exitCode = 0
    /\ Len(log) = 3
    /\ log[1].kind = "agent" /\ log[1].result = "true"
    /\ log[2].kind = "agent" /\ log[2].status = 404
    /\ log[3].kind = "skill" /\ log[3].result = "true"
    /\ report = [msg |-> "partly installed", installed |-> 2, total |-> 3, failed |-> 1]

\* a batch whose option yields no request has reported without any install
C7_WitnessNone ==
    /\ pc = "done" /\ started = <<>> /\ report.msg = "no components specified"

(***************************************************************************)
(* C8                                                                       *)
(***************************************************************************)
SingletonKinds == {"copilot-instructions", "workspace-agents"}

SingletonFile(kind) ==
    IF kind = "copilot-instructions"
    THEN <<".github", "/", "copilot-instructions.md">>
    ELSE <<"AGENTS.md">>

\* C8: when the fetch of a singleton succeeded and its file exists already:
\* with --yes no prompt is issued and the file holds the fetched content;
\* without --yes the prompt is issued, and when the install did not succeed
\* (the operator declined) the file holds what it held before.  No prompt is
\* ever issued under --yes.
C8_SingletonOverwrite ==
    /\ \A e \in Entries :
          (/\ e.kind \in SingletonKinds /\ e.status = 200 /\ e.fsok
           /\ SingletonFile(e.kind) \in DOMAIN e.filesBefore) =>
             /\ e.yes =>
                   /\ ~e.prompted
                   /\ e.result = "true"
                   /\ files[SingletonFile(e.kind)] = Body(GithubUrl(e.kind, e.name))
             /\ ~e.yes =>
                   /\ e.prompted
                   /\ (e.result # "true") =>
                         files[SingletonFile(e.kind)] = e.filesBefore[SingletonFile(e.kind)]
    /\ options.yes => prompts = 0
    /\ prompts = Cardinality({i \in DOMAIN log : log[i].prompted})

\* without --yes the operator declined for copilot-instructions.md, which is
\* unchanged, and accepted for AGENTS.md, which is overwritten
C8_Witness ==
    /\ ~options.yes
    /\ prompts = 2
    /\ \E i, j \in DOMAIN log :
          /\ log[i].kind = "copilot-instructions" /\ log[i].prompted
          /\ log[i].result = "false"
          /\ log[j].kind = "workspace-agents" /\ log[j].prompted
          /\ log[j].result = "true"
    /\ files[copilotInstructionsFile] = OldContent
    /\ files[workspaceAgentsFile] # OldContent

\* with --yes an existing copilot-instructions.md was overwritten, no prompt
C8_WitnessYes ==
    /\ options.yes
    /\ prompts = 0
    /\ copilotInstructionsFile \in DOMAIN files0
    /\ \E e \in Entries : e.kind = "copilot-instructions" /\ e.result = "true"
    /\ files[copilotInstructionsFile] # OldContent

(***************************************************************************)
(* C9                                                                       *)
(***************************************************************************)
\* the names of the requests of a kind, in the order of a list of requests
NamesOfKind(requests, kind) ==
    LET sel == SelectSeq(requests, LAMBDA r : r.kind = kind)
    IN  [i \in DOMAIN sel |-> sel[i].name]

\* the requests of the batch, per kind
Requested(kind) ==
    CASE kind = "agent" -> components.agents
      [] kind = "mcp" -> components.mcps
      [] kind = "skill" -> components.skills
      [] kind = "instruction" -> components.instructions
      [] kind = "prompt" -> components.prompts
      [] kind = "copilot-instructions" ->
            IF Len(components.copilotInstructions) > 0
            THEN <<components.copilotInstructions>> ELSE <<>>
      [] kind = "workspace-agents" ->
            IF Len(components.workspaceAgents) > 0
            THEN <<components.workspaceAgents>> ELSE <<>>

Kinds ==
    {"agent", "mcp", "skill", "instruction", "prompt", "copilot-instructions",
     "workspace-agents"}

\* C9: an install that returns failure leaves the requests after it pending
\* and the project as it was; the batch reports only when every request was
\* attempted exactly once; no step removes a file, a directory, a mode or the
\* MCP file, and a file's content changes only in the return of a successful
\* install that wrote it.
C9_FailureNeverBlocks ==
    [][/\ \A p \in DOMAIN files :
             /\ p \in DOMAIN files'
             /\ (files'[p] # files[p]) =>
                   /\ Len(log') = Len(log) + 1
                   /\ log'[Len(log')].result = "true"
                   /\ p \in log'[Len(log')].wrote
       /\ dirs \subseteq dirs'
       /\ execs \subseteq execs'
       /\ mcpJson.exists => mcpJson'.exists
       /\ (Len(log') = Len(log) + 1 /\ log'[Len(log')].result \in Failure) =>
             /\ queue' = queue /\ pc' = "loop"
             /\ files' = files /\ mcpJson' = mcpJson /\ execs' = execs
       /\ (pc' = "done" /\ pc # "done") =>
             /\ Len(log) = Len(started)
             /\ \A kind \in Kinds : NamesOfKind(started, kind) = Requested(kind)
      ]_vars

\* a batch is over whose first item succeeded, whose second failed and whose
\* third succeeded, and the file of the first is still there
C9_Witness ==
    /\ pc = "done"
    /\ Len(log) = 3
    /\ log[1].kind = "agent" /\ log[1].result = "true"
    /\ log[2].result \in Failure
    /\ log[3].result = "true"
    /\ log[1].wrote \subseteq DOMAIN files
    /\ log[3].wrote \subseteq DOMAIN files

(***************************************************************************)
(* C10                                                                      *)
(***************************************************************************)
\* the place of a kind in the fixed order of the batch
Rank(kind) ==
    CASE kind = "agent" -> 1
      [] kind = "mcp" -> 2
      [] kind = "skill" -> 3
      [] kind = "instruction" -> 4
      [] kind = "prompt" -> 5
      [] kind = "copilot-instructions" -> 6
      [] kind = "workspace-agents" -> 7

IsPrefix(a, b) == Len(a) <= Len(b) /\ SubSeq(b, 1, Len(a)) = a

\* C10: at most one install is in progress; an install is called only when
\* the one before it has returned; the installs are called kind after kind in
\* the order agents, MCPs, skills, instructions, prompts, copilot-instructions,
\* workspace-agents, and within a kind in input order.
C10_OneAtATimeInFixedOrder ==
    /\ Cardinality(inflight) <= 1
    /\ inflight \subseteq {Len(started)}
    /\ Len(log) <= Len(started) /\ Len(started) <= Len(log) + 1
    /\ (inflight = {}) <=> (Len(log) = Len(started))
    /\ \A i, j \in DOMAIN started :
          i < j => Rank(started[i].kind) <= Rank(started[j].kind)
    /\ \A kind \in Kinds : IsPrefix(NamesOfKind(started, kind), Requested(kind))
    /\ \A i \in DOMAIN log :
          log[i].kind = started[i].kind /\ log[i].name = started[i].name

\* the third install of a batch of three kinds is in progress, alone
C10_Witness ==
    /\ pc = "fetching"
    /\ Len(started) = 3 /\ Len(log) = 2
    /\ inflight = {3}
    /\ started[1].kind = "skill"
    /\ started[2].kind = "copilot-instructions"
    /\ started[3].kind = "workspace-agents"

(***************************************************************************)
(* C11                                                                      *)
(***************************************************************************)
\* the positions that bound the comma-separated pieces of s
Boundaries(s) == {0, Len(s) + 1} \cup {i \in DOMAIN s : s[i] = ","}

\* the piece of s that begins after the boundary a, without the blanks around it
PieceAfter(s, a) ==
    LET b == CHOOSE x \in Boundaries(s) :
                /\ x > a
                /\ \A y \in Boundaries(s) : y > a => x <= y
        inked == {i \in (a + 1)..(b - 1) : s[i] # " "}
    IN  IF inked = {} THEN <<>>
        ELSE SubSeq(s, CHOOSE i \in inked : \A j \in inked : i <= j,
                       CHOOSE i \in inked : \A j \in inked : j <= i)

\* the pieces of s that are not empty once trimmed, in input order
PiecesOf(s) ==
    LET kept == {a \in Boundaries(s) \ {Len(s) + 1} : PieceAfter(s, a) # <<>>}
    IN  [k \in 1..Cardinality(kept) |->
            PieceAfter(s, CHOOSE a \in kept : Cardinality({x \in kept : x <= a}) = k)]

\* the pieces of a list of strings: those of its first string, then the others'
RECURSIVE PiecesOfList(_)
PiecesOfList(list) ==
    IF Len(list) = 0 THEN <<>> ELSE PiecesOf(Head(list)) \o PiecesOfList(Tail(list))

PiecesOfValue(v) == IF v.isArray THEN PiecesOfList(v.val) ELSE PiecesOf(v.val)

\* C11: once the options are parsed, the request list of each multi-value
\* kind is the sequence of the comma-separated pieces of its option value (of
\* the strings of the list, one after the other, when it is a list), in input
\* order, each trimmed, the pieces that are empty after trimming left out.
C11_RequestListIsTrimmedPieces ==
    pc # "batch" =>
       /\ components.agents = PiecesOfValue(options.agent)
       /\ components.mcps = PiecesOfValue(options.mcp)
       /\ components.skills = PiecesOfValue(options.skill)
       /\ components.instructions = PiecesOfValue(options.instruction)
       /\ components.prompts = PiecesOfValue(options.prompt)

\* " n,,m" was parsed into the two requests n and m
C11_Witness ==
    /\ pc # "batch"
    /\ options.skill = StringValue(<<" ", "n", ",", ",", "m">>)
    /\ components.skills = << <<"n">>, <<"m">> >>

\* the list ["n ", ",m"] was parsed into the two requests n and m
C11_WitnessList ==
    /\ pc # "batch"
    /\ options.prompt = ArrayValue(<< <<"n", " ">>, <<",", "m">> >>)
    /\ components.prompts = << <<"n">>, <<"m">> >>

(***************************************************************************)
(* C12                                                                      *)
(***************************************************************************)
\* C12: when the process has ended its exit code is 1 if an error was thrown
\* out of createCopilotConfig to the action of the program and 0 if not; a
\* batch that ran to its report ends with 0 whatever its installs returned.
C12_ExitCodeOneIffThrown ==
    /\ exitCode \in {-1, 0, 1}
    /\ (pc = "done") <=> (exitCode # -1)
    /\ pc = "done" =>
          /\ (exitCode = 1) <=> (report.msg = "Error:")
          /\ (report.msg = "Error:") => (log = <<>> /\ ~OptionSet(options.directory))
          /\ (started # <<>>) => exitCode = 0

\* a batch of three items of which none was installed has ended with code 0
C12_Witness ==
    /\ pc = "done" /\ exitCode = 0
    /\ Len(log) = 3
    /\ \A i \in DOMAIN log : log[i].result \in Failure
    /\ report.msg = "none installed"

\* the working directory was gone: the process has ended with code 1
C12_WitnessThrown ==
    /\ pc = "done" /\ exitCode = 1 /\ started = <<>>

(***************************************************************************)
(* C13                                                                      *)
(***************************************************************************)
\* the number of installs of a kind that were called
Attempts(kind) == Cardinality({i \in DOMAIN started : started[i].kind = kind})

\* 1 when the option has a value, 0 when not
OneIfGiven(v) == IF v.isArray \/ Len(v.val) > 0 THEN 1 ELSE 0

\* C13: at most one copilot-instructions install and at most one AGENTS.md
\* install is called in a batch, for the whole option value as the template
\* name; once the options are parsed the attempted total counts 1 for each
\* singleton option given and one for each identifier of the other kinds; and
\* a batch that has reported has called one install per identifier of its
\* request lists.
C13_SingletonsCappedAtOne ==
    /\ \A kind \in SingletonKinds : Attempts(kind) <= 1
    /\ \A i \in DOMAIN started :
          /\ started[i].kind = "copilot-instructions" =>
                started[i].name = options.copilotInstructions.val
          /\ started[i].kind = "workspace-agents" =>
                started[i].name = options.workspaceAgents.val
    /\ pc \notin {"action", "batch"} /\ report.msg # "Error:" =>
          totalComponents =
             Len(components.agents) + Len(components.mcps) + Len(components.skills)
                + Len(components.instructions) + Len(components.prompts)
                + OneIfGiven(options.copilotInstructions)
                + OneIfGiven(options.workspaceAgents)
    /\ pc = "done" /\ report.msg # "Error:" =>
          /\ Attempts("copilot-instructions") = OneIfGiven(options.copilotInstructions)
          /\ Attempts("workspace-agents") = OneIfGiven(options.workspaceAgents)
          /\ Attempts("agent") = Len(components.agents)
          /\ Attempts("mcp") = Len(components.mcps)
          /\ Attempts("skill") = Len(components.skills)
          /\ Attempts("instruction") = Len(components.instructions)
          /\ Attempts("prompt") = Len(components.prompts)
          /\ Len(started) = totalComponents

\* both singleton options were given the value "x,y", with one agent: the
\* batch has called three installs, one per singleton
C13_Witness ==
    /\ pc = "done"
    /\ options.copilotInstructions = StringValue(<<"x", ",", "y">>)
    /\ options.workspaceAgents = StringValue(<<"x", ",", "y">>)
    /\ totalComponents = 3
    /\ Len(started) = 3
    /\ started[2] = [kind |-> "copilot-instructions", name |-> <<"x", ",", "y">>]
    /\ started[3] = [kind |-> "workspace-agents", name |-> <<"x", ",", "y">>]

(***************************************************************************)
(* C14                                                                      *)
(***************************************************************************)
\* the options of the direct batch that asks for the identifiers of a manifest
BatchFor(c) ==
    [agent |-> ArrayValue(c.agents), mcp |-> Absent, skill |-> ArrayValue(c.skills),
     instruction |-> ArrayValue(c.instructions), prompt |-> ArrayValue(c.prompts),
     copilotInstructions |-> Absent, workspaceAgents |-> Absent, yes |-> options.yes]

\* the manifest was fetched and its lists are being, or were, installed
PathExpanded ==
    \/ pc \in {"loop", "fetching", "skill_walk"}
    \/ pc = "done" /\ report.msg \notin {"learning path not found",
                                          "error installing learning path"}

\* C14: once the manifest is fetched, the installs called so far followed by
\* those pending are the requests of the direct batch for the manifest's
\* identifiers, in the batch's order; the steps of the learning path itself
\* (the fetch of the manifest, the call of an installer, the report) leave
\* the project as it is; and when the path has reported, every request was
\* attempted once, the attempted total is the batch's total, the succeeded
\* count is the number of installs that returned success, and the report
\* gives the counts the batch's report gives.
C14_PathIsExpansionOnly ==
    [][/\ PathExpanded' =>
             started' \o queue' = RequestsInOrder(ParseComponents(BatchFor(components')))
       /\ (pc = "path" \/ pc = "loop") =>
             /\ files' = files /\ dirs' = dirs /\ execs' = execs /\ mcpJson' = mcpJson
             /\ successfullyInstalled' = successfullyInstalled
       /\ (pc = "loop" /\ pc' = "fetching") =>
             /\ cur'.kind = Head(queue).kind /\ cur'.name = Head(queue).name
             /\ queue' = Tail(queue)
       /\ (pc' = "done" /\ PathExpanded') =>
             /\ Len(log') = Len(started') /\ queue' = <<>>
             /\ totalComponents' = TotalOf(ParseComponents(BatchFor(components')))
             /\ successfullyInstalled' =
                   Cardinality({i \in DOMAIN log' : log'[i].result = "true"})
             /\ report'.installed =
                   ReportOf(successfullyInstalled', totalComponents').installed
             /\ report'.total = ReportOf(successfullyInstalled', totalComponents').total
             /\ report'.failed = ReportOf(successfullyInstalled', totalComponents').failed
      ]_vars

\* a path of an agent, a skill and a prompt has reported 2 of 3: the agent and
\* the prompt are installed, the skill has failed
C14_Witness ==
    /\ pc = "done"
    /\ Len(log) = 3
    /\ log[1].kind = "agent" /\ log[1].result = "true"
    /\ log[2].kind = "skill" /\ log[2].result = "false"
    /\ log[3].kind = "prompt" /\ log[3].result = "true"
    /\ report = [msg |-> "learning path partially installed", installed |-> 2,
                 total |-> 3, failed |-> 1]
    /\ log[1].wrote \cup log[3].wrote \subseteq DOMAIN files

(***************************************************************************)
(* C15                                                                      *)
(***************************************************************************)
\* the server names of a payload that the file read did not define
NewNames(e) == DefinedServers(e.payload) \ DOMAIN ServerMapping(e.read)

\* C15: nothing guards the write of the MCP file against a write made since
\* the file was read.  Of two invocations that both read the file before
\* either wrote it, with payloads of disjoint new server names, the file
\* after the second write has the second writer's servers and none of the
\* first writer's new ones.  A write by an invocation that read the file after
\* every earlier write keeps every entry of the file's server mapping and adds
\* its own.
C15_LostUpdateOnlyWhenInterleaved ==
    /\ \A j \in DOMAIN log :
          log[j].readAt = j - 1 =>
             /\ DOMAIN ServerMapping(log[j].before) \subseteq DOMAIN ServerMapping(log[j].after)
             /\ DefinedServers(log[j].payload) \subseteq DOMAIN ServerMapping(log[j].after)
    /\ (/\ Len(log) = 2
        /\ log[1].readAt = 0 /\ log[2].readAt = 0
        /\ NewNames(log[1]) \cap DefinedServers(log[2].payload) = {}) =>
          /\ mcpJson = log[2].after
          /\ DOMAIN ServerMapping(mcpJson) =
                DOMAIN ServerMapping(log[2].read) \cup DefinedServers(log[2].payload)
          /\ NewNames(log[1]) \cap DOMAIN ServerMapping(mcpJson) = {}

\* both invocations read the empty project before either wrote: the server
\* s1 of the first writer is lost
C15_Witness ==
    /\ Len(log) = 2
    /\ log[1].readAt = 0 /\ log[2].readAt = 0
    /\ log[1].payload = PayloadServers /\ log[2].payload = PayloadLegacy
    /\ ~mcpJson0.exists
    /\ DOMAIN ServerMapping(log[1].after) = {"s1"}
    /\ DOMAIN ServerMapping(mcpJson) = {"s2"}

\* the second invocation read the file after the first had written it: both
\* servers are in the file
C15_WitnessInTurn ==
    /\ Len(log) = 2
    /\ log[1].readAt = 0 /\ log[2].readAt = 1
    /\ log[1].payload = PayloadServers /\ log[2].payload = PayloadLegacy
    /\ ~mcpJson0.exists
    /\ DOMAIN ServerMapping(mcpJson) = {"s1", "s2"}

(***************************************************************************)
(* C16                                                                      *)
(***************************************************************************)
\* the installs in which the operator declined the overwrite prompt
Declined == {i \in DOMAIN log : log[i].prompted /\ log[i].result # "true"}

\* C16: an install in which the operator declined the overwrite prompt leaves
\* the file as it was, and the batch does not report it among the components
\* that failed to install: the number of failed components of the report is
\* at most the number of installs that failed otherwise, and a batch all of
\* whose other installs succeeded does not report a failure.
C16_DeclineIsNotAFailure ==
    /\ \A i \in Declined :
          /\ log[i].kind \in SingletonKinds
          /\ log[i].wrote = {}
    /\ pc = "done" /\ started # <<>> =>
          /\ report.failed <=
                Cardinality({i \in DOMAIN log : log[i].result # "true"} \ Declined)
          /\ (\A i \in DOMAIN log \ Declined : log[i].result = "true") =>
                report.msg = "all installed"

(***************************************************************************)
(* C17                                                                      *)
(***************************************************************************)
\* the part of an identifier after its last "/"
FinalSegment(s) ==
    LET cut == {i \in DOMAIN s : s[i] = "/"} IN
    IF cut = {} THEN s
    ELSE SubSeq(s, (CHOOSE i \in cut : \A j \in cut : j <= i) + 1, Len(s))

\* C17: a successful install of an agent, a prompt, an instruction or a skill
\* whose identifier has more than one "/" writes to the destination named
\* after the final segment of the identifier: the file
\* .github/<kind>s/<final>.<ext>, for a skill files below .github/skills/<final>/.
C17_FinalSegmentOnly ==
    \A e \in Entries :
       (e.result = "true" /\ e.kind \in CategoryKinds /\ SlashCount(e.name) > 1) =>
          IF e.kind = "skill"
          THEN \A p \in e.wrote : StartsWith(p, DocumentedSkillDir(FinalSegment(e.name)))
          ELSE e.wrote = {DocumentedFile(e.kind, FinalSegment(e.name))}

(***************************************************************************)
(* C18                                                                      *)
(***************************************************************************)
\* the kinds that install one file
SingleFileKinds ==
    {"agent", "prompt", "instruction", "mcp", "copilot-instructions", "workspace-agents"}

\* C18: the step in which an install of a single-file kind receives a status
\* that is neither 2xx nor 404 returns false to the batch with the error
\* "HTTP <status>: <status text>" (the status served is 500, Internal Server
\* Error), writes nothing, does not count the item
\* and leaves the rest of the batch pending; the batch reports only when
\* every request was attempted.
C18_FetchErrorAbortsItemOnly ==
    [][/\ (pc = "fetching" /\ cur.kind \in SingleFileKinds
                             /\ cur.status \notin {200, 404}) =>
             /\ files' = files /\ dirs' = dirs /\ execs' = execs /\ mcpJson' = mcpJson
             /\ pc' = "loop" /\ queue' = queue
             /\ successfullyInstalled' = successfullyInstalled
             /\ Len(log') = Len(log) + 1
             /\ log'[Len(log')].result = "false"
             /\ log'[Len(log')].wrote = {}
             /\ log'[Len(log')].fetchError =
                   <<"HTTP ", cur.status, ": ", "Internal Server Error">>
       /\ (pc' = "done" /\ pc # "done") =>
             /\ Len(log) = totalComponents
             /\ queue = <<>>
      ]_vars

\* a prompt was answered 500 and the singleton after it was installed
C18_Witness ==
    /\ pc = "done"
    /\ \E i, j \in DOMAIN log :
          /\ i < j
          /\ log[i].kind = "prompt" /\ log[i].status = 500 /\ log[i].result = "false"
          /\ log[i].fetchError # NoError
          /\ log[j].kind = "copilot-instructions" /\ log[j].result = "true"
    /\ report.msg = "partly installed"

(***************************************************************************)
(* C19                                                                      *)
(***************************************************************************)
\* the local paths of the files of a listing that can be downloaded
ServedIn(name, remote, url, rel) ==
    {DocumentedSkillDir(FinalSegment(name)) \o rel \o remote[url].items[i].name :
        i \in {j \in DOMAIN remote[url].items :
                  remote[url].items[j].type = "file" /\ remote[url].items[j].ok}}

\* the local paths of the files of a remote skill that an install downloads
ServedFiles(name, remote) ==
    ServedIn(name, remote, "root", <<>>)
       \cup UNION {IF remote.root.items[i].type = "dir"
                      /\ remote[remote.root.items[i].url].status = 200
                   THEN ServedIn(name, remote, remote.root.items[i].url,
                                 remote.root.items[i].name \o <<"/">>)
                   ELSE {} : i \in DOMAIN remote.root.items}

\* the skill installs that failed because SKILL.md was missing
FailedForSentinel ==
    {e \in Entries : /\ e.kind = "skill" /\ e.status = 200
                     /\ ~RootSentinelServed(e.remote) /\ e.result = "false"}

\* C19 as stated: after a skill install has failed because SKILL.md is
\* missing, the files of the skill that it had downloaded are in the target
\* project, under .github/skills/<name>/.
C19_PartialFilesLeftInProject ==
    \A e \in FailedForSentinel : ServedFiles(e.name, e.remote) \subseteq DOMAIN files

\* C19 as amended: the return of a skill install whose downloaded files do
\* not include SKILL.md at the skill's root writes none of the downloaded
\* files and leaves every file, directory and mode of the target project as it
\* was, those under .github/skills/<name>/ included.
C19_PartialFilesDiscarded ==
    [][(/\ pc = "skill_walk" /\ stack = <<>>
        /\ DocumentedSkillDir(FinalSegment(cur.name)) \o <<"SKILL.md">>
              \notin DOMAIN downloadedFiles) =>
          /\ files' = files /\ dirs' = dirs /\ execs' = execs
          /\ Len(log') = Len(log) + 1
          /\ log'[Len(log')].result = "false"
          /\ log'[Len(log')].wrote = {}
          /\ downloadedFiles' = EmptyObject
      ]_vars

\* the skill n was installed; then the install of c/n, which downloaded a
\* README.md and no SKILL.md at its root, has failed: the files of n are where
\* they were and the README.md is not in the project
C19_Witness ==
    /\ Len(log) >= 2
    /\ log[1].kind = "skill" /\ log[1].name = IdPlain /\ log[1].result = "true"
    /\ log[2].kind = "skill" /\ log[2].name = IdCategory
    /\ log[2].remote = RemoteNoSentinel /\ log[2].result = "false"
    /\ ServedFiles(log[2].name, log[2].remote) # {}
    /\ log[1].wrote # {} /\ log[1].wrote \subseteq DOMAIN files
    /\ <<".github", "/", "skills", "/", "n", "/", "README.md">> \notin DOMAIN files

(***************************************************************************)
(* C20                                                                      *)
(***************************************************************************)
\* the successful MCP installs
McpWrites == {e \in Entries : e.kind = "mcp" /\ e.result = "true"}

\* C20: the document a successful MCP install writes has no top-level key
\* `mcpServers`; its key `servers` holds the entries of the file's server
\* mapping as it was, with the payload's entries, less their description,
\* added or put in their place; and every other top-level key of the document
\* as it was is there with the value it had, and no further key.
C20_WrittenDocumentKeys ==
    \A e \in McpWrites :
       /\ e.after.exists
       /\ "mcpServers" \notin DOMAIN e.after.doc
       /\ "servers" \in DOMAIN e.after.doc
       /\ DOMAIN e.after.doc = (DOMAIN e.before.doc \ {"mcpServers"}) \cup {"servers"}
       /\ DOMAIN e.after.doc.servers =
             DOMAIN ServerMapping(e.before) \cup DefinedServers(e.payload)
       /\ \A name \in DOMAIN e.after.doc.servers :
             e.after.doc.servers[name] =
                IF name \in DefinedServers(e.payload)
                THEN WithoutDescription(DefinedEntry(e.payload, name))
                ELSE ServerMapping(e.before)[name]
       /\ \A key \in DOMAIN e.before.doc \ {"servers", "mcpServers"} :
             e.after.doc[key] = e.before.doc[key]

\* an MCP was installed into a project whose file had the keys `mcpServers`
\* and `inputs`: the written file has `servers` and `inputs`
C20_Witness ==
    /\ mcpJson0 = McpFile([mcpServers |-> [s0 |-> EntryStored], inputs |-> "none"])
    /\ \E e \in McpWrites : e.before = mcpJson0 /\ e.payload = PayloadServers
    /\ DOMAIN mcpJson.doc = {"servers", "inputs"}
    /\ mcpJson.doc.inputs = "none"

\* an MCP was installed into a project whose file had `servers` and `inputs`
C20_WitnessServers ==
    /\ mcpJson0.exists /\ DOMAIN mcpJson0.doc = {"servers", "inputs"}
    /\ \E e \in McpWrites : e.before = mcpJson0 /\ e.payload = PayloadLegacy
    /\ DOMAIN mcpJson.doc = {"servers", "inputs"}
    /\ DOMAIN mcpJson.doc.servers = {"s0", "s1", "s2"}


(***************************************************************************)
(* C21: no fetch is retried                                                 *)
(***************************************************************************)
\* the positions in the history of the requests sent for install k
RequestsOf(k) == {i \in DOMAIN fetched : fetched[i].install = k}

Children(remote, k) ==
    IF remote[k].status = 200
    THEN {remote[k].items[i].url :
             i \in {j \in DOMAIN remote[k].items : remote[k].items[j].type = "dir"}}
    ELSE {}

RECURSIVE ReachFrom(_, _, _)
ReachFrom(remote, seen, n) ==
    IF n = 0 THEN seen
    ELSE ReachFrom(remote, seen \cup UNION {Children(remote, k) : k \in seen}, n - 1)

\* the directories below directory k
Descendants(remote, k) ==
    ReachFrom(remote, Children(remote, k), Cardinality(DOMAIN remote))

\* some directory reachable from the skill root lies below itself
Cyclic(remote) ==
    \E k \in {"root"} \cup Descendants(remote, "root") : k \in Descendants(remote, k)

RECURSIVE EntryCount(_, _)
\* the number of entries of the listings of the directories in `listed`
EntryCount(remote, listed) ==
    IF listed = {} THEN 0
    ELSE LET k == CHOOSE d \in listed : TRUE
         IN  (IF remote[k].status = 200 THEN Len(remote[k].items) ELSE 0)
                + EntryCount(remote, listed \ {k})

\* the skill install of the batch is in progress
Walking == pc \in {"fetching", "skill_walk"} /\ cur.kind = "skill"

\* C22: the recursive skill download has no depth or file-count guard.  On a
\* finite tree without cycles the install returns, and when it has returned
\* it has requested the top-level listing once and every entry of every
\* listed directory once (a file's download, a subdirectory's listing), all
\* under different URLs; on a listing in which a subdirectory entry leads
\* back to an ancestor the install never returns.
C22_EndsIffAcyclic ==
    /\ (Walking /\ ~Cyclic(cur.remote)) ~> (Len(log) = 1)
    /\ [](Len(log) = 1 =>
             /\ ~Cyclic(log[1].remote)
             /\ Cardinality(RequestsOf(1)) =
                   1 + EntryCount(log[1].remote,
                                  {"root"} \cup Descendants(log[1].remote, "root"))
             /\ \A i, j \in RequestsOf(1) : i # j => fetched[i].url # fetched[j].url)
    /\ []((Walking /\ Cyclic(cur.remote)) => [](Walking /\ Len(log) = 0))

\* the recursion has followed a listing that leads back to the skill root
\* down to the deepest level that is followed, and has not returned
C22_Witness ==
    /\ Walking /\ Cyclic(cur.remote)
    /\ Len(stack) = MaxDepth
    /\ Cardinality(RequestsOf(1)) > Cardinality({fetched[i].url : i \in RequestsOf(1)})

\* the walk of a skill with a subdirectory has returned
C22_WitnessTree ==
    /\ Len(log) = 1 /\ log[1].remote = RemoteComplete
    /\ Cardinality(RequestsOf(1)) = 5


(***************************************************************************)
(* C23: one handler per invocation, the batch first                         *)
(***************************************************************************)
\* the handlers in the order of their priority
HandlerPriority ==
    <<"installMultipleComponents", "createGlobalAgent", "listGlobalAgents",
      "removeGlobalAgent", "updateGlobalAgent", "installLearningPath",
      "runHealthCheck", "projectSetup">>

\* the handlers the options ask for; the project setup (or the menu) is what
\* is left when nothing else is asked for
Wanted(o) ==
    {"projectSetup"}
      \cup (IF BatchRequested(o) THEN {"installMultipleComponents"} ELSE {})
      \cup (IF OptionSet(o.createAgent) THEN {"createGlobalAgent"} ELSE {})
      \cup (IF OptionSet(o.listAgents) THEN {"listGlobalAgents"} ELSE {})
      \cup (IF OptionSet(o.removeAgent) THEN {"removeGlobalAgent"} ELSE {})
      \cup (IF OptionSet(o.updateAgent) THEN {"updateGlobalAgent"} ELSE {})
      \cup (IF OptionSet(o.learningPath) THEN {"installLearningPath"} ELSE {})
      \cup (IF OptionSet(o.healthCheck) THEN {"runHealthCheck"} ELSE {})

\* createCopilotConfig has dispatched and nothing was thrown
Dispatched == pc # "action" /\ report.msg # "Error:"

C23_WitnessPath ==
    /\ Dispatched /\ ~BatchRequested(options)
    /\ OptionSet(options.learningPath) /\ OptionSet(options.healthCheck)
    /\ handlers = <<"installLearningPath">> /\ pc = "path"


(***************************************************************************)
(* C24: a skill install writes only at its end                              *)
(***************************************************************************)
\* C24: no step of a skill install touches the target project (its files,
\* directories, modes, MCP file) except the last one, taken when the whole
\* traversal is over and SKILL.md at the skill's root is among the
\* downloads.  A skill install whose top-level listing
\* failed (404 or another status) returns false in a step that leaves the
\* project as it was.
C24_SkillWritesOnlyAtEnd ==
    [][Walking =>
          /\ \/ files' = files /\ dirs' = dirs /\ execs' = execs /\ mcpJson' = mcpJson
             \/ /\ pc = "skill_walk" /\ stack = <<>>
                /\ DocumentedSkillDir(FinalSegment(cur.name)) \o <<"SKILL.md">>
                      \in DOMAIN downloadedFiles
          /\ (pc = "fetching" /\ cur.status # 200) =>
                /\ files' = files /\ dirs' = dirs /\ execs' = execs
                /\ log'[Len(log')].result = "false" /\ log'[Len(log')].wrote = {}
      ]_vars

\* a skill install whose listing failed has returned, and a later skill
\* install has downloads in memory while the project is as the batch found it
C24_Witness ==
    /\ pc = "skill_walk" /\ stack # <<>>
    /\ DOMAIN downloadedFiles # {}
    /\ files = files0 /\ dirs = dirs0
    /\ \E e \in Entries : e.kind = "skill" /\ e.status = 500 /\ e.result = "false"


(***************************************************************************)
(* C25: a failed MCP install leaves the MCP file as it was                  *)
(***************************************************************************)
\* a payload that is not a JSON object
NotAnObject(payload) == "text" \in DOMAIN payload \/ "jsonValue" \in DOMAIN payload

\* the MCP installs whose fetch was answered with a body and met no file
\* system error
McpAnswered == {e \in Entries : e.kind = "mcp" /\ e.status = 200 /\ e.fsok}

\* C25 as stated: an MCP install whose payload is not valid JSON, or is JSON
\* that is not an object, or that finds an MCP file that cannot be parsed,
\* returns failure and leaves the MCP file as it was.
C25_NonObjectPayloadFails ==
    \A e \in McpAnswered :
       (NotAnObject(e.payload) \/ (e.before.exists /\ "text" \in DOMAIN e.before.doc))
          => (e.result = "false" /\ e.after = e.before)

\* C25 as amended: the step in which an MCP install returns anything but
\* success leaves the MCP file and every other file as they were; and an
\* install whose payload is not valid JSON, or is the JSON value null, or that
\* finds an MCP file that cannot be parsed, returns false in such a step.
C25_FailedInstallKeepsFile ==
    [][(pc = "fetching" /\ cur.kind = "mcp") =>
          /\ (Len(log') = Len(log) + 1 /\ log'[Len(log')].result # "true") =>
                /\ mcpJson' = mcpJson /\ files' = files /\ execs' = execs
                /\ successfullyInstalled' = successfullyInstalled
          /\ (/\ cur.status = 200
              /\ \/ "text" \in DOMAIN cur.payload
                 \/ cur.payload = PayloadNull
                 \/ (mcpJson.exists /\ "text" \in DOMAIN mcpJson.doc)) =>
                /\ Len(log') = Len(log) + 1
                /\ log'[Len(log')].result = "false"
                /\ pc' = "loop"
      ]_vars

\* installs of a text that is not JSON and of null have failed in a project
\* whose MCP file holds servers, and the file is as it was
C25_Witness ==
    /\ Len(log) = 2
    /\ log[1].payload = PayloadNotJson /\ log[1].result = "false"
    /\ log[2].payload = PayloadNull /\ log[2].result = "false"
    /\ mcpJson.exists /\ mcpJson = mcpJson0
    /\ DOMAIN ServerMapping(mcpJson) # {}

\* an install has failed on an MCP file that is not JSON, which is as it was
C25_WitnessBrokenFile ==
    /\ Len(log) >= 1
    /\ log[1].payload = PayloadServers /\ log[1].result = "false"
    /\ log[1].status = 200 /\ log[1].fsok
    /\ mcpJson = McpFile(PayloadNotJson)


(***************************************************************************)
(* C26: the merge replaces whole server entries                             *)
(***************************************************************************)
\* C26: in the file a successful MCP install writes, a server name that the
\* file's server mapping had and the payload defines has the payload's entry
\* less its description, so no field that only the stored entry had is kept;
\* a server name of the mapping that the payload does not define has the
\* entry it had, field for field.
C26_WholeEntriesReplaced ==
    \A e \in McpWrites :
       \A name \in DOMAIN ServerMapping(e.before) :
          IF name \in DefinedServers(e.payload)
          THEN /\ ServerMapping(e.after)[name] =
                     WithoutDescription(DefinedEntry(e.payload, name))
               /\ \A field \in DOMAIN ServerMapping(e.before)[name] :
                     field \notin DOMAIN DefinedEntry(e.payload, name)
                        => field \notin DOMAIN ServerMapping(e.after)[name]
          ELSE /\ name \in DOMAIN ServerMapping(e.after)
               /\ ServerMapping(e.after)[name] = ServerMapping(e.before)[name]

\* the stored entry of s1 had a field env, the payload's entry has none: the
\* written entry is the payload's, without env, and s0 is as it was
C26_Witness ==
    \E e \in McpWrites :
       /\ e.payload = PayloadServers
       /\ "s1" \in DOMAIN ServerMapping(e.before)
       /\ "env" \in DOMAIN ServerMapping(e.before)["s1"]
       /\ ServerMapping(e.after)["s1"] = [command |-> "npx"]
       /\ ServerMapping(e.after)["s0"] = EntryStored


(***************************************************************************)
(* C27: what makes a skill install succeed                                  *)
(***************************************************************************)
\* the skill installs that met no file system error
SkillInstalls == {e \in Entries : e.kind = "skill" /\ e.fsok}

C28_CountersInOrder ==
    /\ [](/\ 0 <= successfullyInstalled
          /\ successfullyInstalled <= Len(log)
          /\ Len(log) <= Len(started)
          /\ (pc # "batch" => Len(started) <= totalComponents)
          /\ report.msg = "all installed" =>
                /\ Len(log) = totalComponents
                /\ \A i \in DOMAIN log : log[i].result = "true")
    /\ [][/\ successfullyInstalled' # successfullyInstalled =>
                /\ successfullyInstalled' = successfullyInstalled + 1
                /\ Len(log') = Len(log) + 1
                /\ log'[Len(log')].result = "true"
          /\ (Len(log') = Len(log) + 1 /\ log'[Len(log')].result = "true") =>
                successfullyInstalled' = successfullyInstalled + 1
         ]_vars

\* a batch of three of which the second returned undefined and the others
\* true has reported two of three
C28_Witness ==
    /\ pc = "done" /\ totalComponents = 3 /\ Len(log) = 3
    /\ log[1].result = "true" /\ log[2].result = "undefined" /\ log[3].result = "true"
    /\ successfullyInstalled = 2 /\ report.msg = "partly installed"

\* a batch of three that all returned true has reported that all were installed
C28_WitnessAll ==
    /\ pc = "done" /\ totalComponents = 3 /\ successfullyInstalled = 3
    /\ report.msg = "all installed"


(***************************************************************************)
(* C29: a payload that defines no servers                                   *)
(***************************************************************************)
\* an MCP install is in progress whose payload is valid JSON, not null, with
\* neither key `servers` nor key `mcpServers`, in a project whose MCP file,
\* if there is one, is JSON
BarePayload ==
    /\ cur.kind = "mcp" /\ cur.status = 200 /\ cur.fsok
    /\ "text" \notin DOMAIN cur.payload /\ cur.payload # PayloadNull
    /\ "servers" \notin DOMAIN cur.payload /\ "mcpServers" \notin DOMAIN cur.payload
    /\ mcpJson.exists => "text" \notin DOMAIN mcpJson.doc

C29_WitnessConfigured ==
    /\ Len(log) = 1 /\ log[1].kind = "mcp" /\ log[1].payload = PayloadBare
    /\ log[1].result = "true"
    /\ DOMAIN ServerMapping(mcpJson) = {"s0", "s1"}
    /\ ServerMapping(mcpJson) = ServerMapping(mcpJson0)


(***************************************************************************)
(* C30: the same identifier twice in one list                               *)
(***************************************************************************)
\* the remote serves the install in progress what it served the first install
\* of the batch, and neither meets a file system error
SameAnswerAsFirst ==
    /\ Len(log) = 1 /\ Len(started) = 2
    /\ pc \in {"fetching", "mcp_write", "skill_walk"}
    /\ cur.name = log[1].name /\ cur.kind = log[1].kind
    /\ cur.status = log[1].status /\ cur.payload = log[1].payload
    /\ cur.remote = log[1].remote
    /\ cur.fsok /\ log[1].fsok

\* C30: a list that names one identifier twice is not deduplicated: the batch
\* counts two requests and calls the installer twice, for the same name.
\* When the remote serves the second install what it served the first, no
\* step of the second install changes a file, a directory, a mode or the MCP
\* file (the project is as one install left it), and the second install
\* returns what the first returned and is counted like it.
C30_TwiceIsOnce ==
    /\ [](pc \notin {"batch", "action"} =>
             /\ totalComponents = 2
             /\ Len(started) + Len(queue) = 2
             /\ Len(started) = 2 => started[1] = started[2])
    /\ [][SameAnswerAsFirst =>
             /\ files' = files /\ dirs' = dirs /\ execs' = execs /\ mcpJson' = mcpJson
             /\ Len(log') = 2 =>
                   /\ log'[2].result = log[1].result
                   /\ successfullyInstalled' =
                         IF log[1].result = "true" THEN 2 ELSE 0
         ]_vars

\* the MCP n was installed twice from the same payload into a configured
\* project: both installs are counted and the file is as the first left it
C30_Witness ==
    /\ pc = "done" /\ Len(log) = 2
    /\ log[1].kind = "mcp" /\ log[1].payload = PayloadServers
    /\ log[2].payload = PayloadServers
    /\ log[1].before # log[1].after /\ log[2].before = log[1].after
    /\ mcpJson = log[1].after
    /\ successfullyInstalled = 2 /\ report.msg = "all installed"

\* the agent c/n was installed twice: one file, written twice
C30_WitnessAgent ==
    /\ pc = "done" /\ Len(log) = 2
    /\ log[1].kind = "agent" /\ log[1].name = IdCategory
    /\ log[1].result = "true" /\ log[2].result = "true"
    /\ log[1].wrote = log[2].wrote /\ log[1].wrote # {}
    /\ successfullyInstalled = 2

====
